---- MODULE Spec2Model ----
(***************************************************************************)
(* Model of the timetable solver of service-timetable-python/scheduler.py: *)
(* the constraint index (CSPConstraintChecker), the CSP-guided initializer *)
(* and the fitness evaluator of OptimizedTimetableChromosome, the genetic  *)
(* loop of generate_semester_timetable and generate_timetable_with_retry.  *)
(***************************************************************************)
EXTENDS Integers, Sequences, FiniteSets, TLC

(***************************************************************************)
(* Bounds of the model.  The program runs 6 days, a population of 120 and  *)
(* 500 generations; the model scales these parameters down.  The inputs of *)
(* EliteInputs are solved at a larger scale, at which int(population_size  *)
(* * 0.15) elites and population_size // 4 injected candidates exist.      *)
(***************************************************************************)
Days == 3
PopSize == 3
Generations == 2
StagnationLimit == 1
ElitePopSize == 7
EliteGenerations == 3

\* periods_per_day and the two halves of the day (scheduler.py:191, 200, 201)
PeriodsPerDay == 7
morning_periods == <<0, 1, 2, 3>>
afternoon_periods == <<4, 5, 6>>
lab_starts == <<0, 2, 4>>

Slots == (0 .. Days - 1) \X (0 .. PeriodsPerDay - 1)

(***************************************************************************)
(* Generic helpers.                                                        *)
(***************************************************************************)
\* the sum of f[x] over the x of S
RECURSIVE SumOver(_, _)
SumOver(f, S) ==
    IF S = {} THEN 0
    ELSE LET x == CHOOSE y \in S : TRUE IN f[x] + SumOver(f, S \ {x})

Range(s) == {s[i] : i \in DOMAIN s}

Max2(a, b) == IF a >= b THEN a ELSE b

SetMax(S) == CHOOSE x \in S : \A y \in S : x >= y
SetMin(S) == CHOOSE x \in S : \A y \in S : x <= y

Abs(x) == IF x < 0 THEN -x ELSE x

\* the number of positions of seq whose element satisfies P
CountIf(seq, P(_)) == Cardinality({i \in DOMAIN seq : P(seq[i])})

(***************************************************************************)
(* VTUSubjectValidator.                                                    *)
(***************************************************************************)
SUBJECT_TYPES ==
    [IPCC |-> [has_theory |-> TRUE,  has_lab |-> TRUE,  is_project |-> FALSE],
     PCC  |-> [has_theory |-> TRUE,  has_lab |-> FALSE, is_project |-> FALSE],
     PCCL |-> [has_theory |-> FALSE, has_lab |-> TRUE,  is_project |-> FALSE],
     PEC  |-> [has_theory |-> TRUE,  has_lab |-> FALSE, is_project |-> FALSE],
     OEC  |-> [has_theory |-> TRUE,  has_lab |-> FALSE, is_project |-> FALSE],
     HSMC |-> [has_theory |-> TRUE,  has_lab |-> FALSE, is_project |-> FALSE],
     MP   |-> [has_theory |-> FALSE, has_lab |-> TRUE,  is_project |-> TRUE],
     INT  |-> [has_theory |-> FALSE, has_lab |-> FALSE, is_project |-> FALSE]]

\* str.upper() on the type names the inputs use
Upper(str) ==
    CASE str = "mp" -> "MP"
      [] str = "pcc" -> "PCC"
      [] OTHER -> str

\* validate_subject: hours a type does not carry are set to 0
validate_subject(subject) ==
    LET rules == SUBJECT_TYPES[Upper(subject.subject_type)]
        s1 == IF ~rules.has_theory /\ subject.theory_hours > 0
              THEN [subject EXCEPT !.theory_hours = 0] ELSE subject
    IN  IF ~rules.has_lab /\ s1.lab_hours > 0
        THEN [s1 EXCEPT !.lab_hours = 0] ELSE s1

is_project(subject_type) == Upper(subject_type) \in {"MP", "PROJ"}

(***************************************************************************)
(* TimeSlot (the gene) and CSPConstraintChecker.                           *)
(***************************************************************************)
TimeSlot(day, period, code, type, faculty, section, room, batch, theory) ==
    [day |-> day, period |-> period, subject_code |-> code,
     subject_type |-> type, faculty_id |-> faculty, section_id |-> section,
     room_id |-> room, batch_number |-> batch, is_theory |-> theory]

\* CSPConstraintChecker.__init__: three empty defaultdict(set)
EmptyChecker ==
    [faculty_slots |-> [k \in Slots |-> {}],
     section_slots |-> [k \in Slots |-> {}],
     room_slots    |-> [k \in Slots |-> {}]]

\* an index that keeps no trace of the genes of a lab batch
add_slot_without_batches(cc, gene) ==
    LET key == <<gene.day, gene.period>>
    IN  IF gene.is_theory \/ gene.batch_number = 0
        THEN [cc EXCEPT !.faculty_slots[key] = @ \cup {gene.faculty_id},
                        !.section_slots[key] = @ \cup {gene.section_id},
                        !.room_slots[key] = @ \cup {gene.room_id}]
        ELSE cc

add_slot(cc, gene) ==
    LET key == <<gene.day, gene.period>>
        c1 == [cc EXCEPT !.faculty_slots[key] = @ \cup {gene.faculty_id},
                         !.section_slots[key] = @ \cup {gene.section_id}]
    IN  IF gene.is_theory \/ gene.batch_number = 0
        THEN [c1 EXCEPT !.room_slots[key] = @ \cup {gene.room_id}]
        ELSE c1

remove_slot(cc, gene) ==
    LET key == <<gene.day, gene.period>>
        c1 == [cc EXCEPT !.faculty_slots[key] = @ \ {gene.faculty_id},
                         !.section_slots[key] = @ \ {gene.section_id}]
    IN  IF gene.is_theory \/ gene.batch_number = 0
        THEN [c1 EXCEPT !.room_slots[key] = @ \ {gene.room_id}]
        ELSE c1

is_available(cc, day, period, faculty_id, section_id, room_id, is_theory) ==
    LET key == <<day, period>> IN
    IF faculty_id # "" /\ faculty_id \in cc.faculty_slots[key] THEN FALSE
    ELSE IF section_id # "" /\ section_id \in cc.section_slots[key] THEN FALSE
    ELSE IF is_theory /\ room_id # "" /\ room_id \in cc.room_slots[key] THEN FALSE
    ELSE TRUE

RECURSIVE AddAll(_, _, _)
AddAll(cc, genes, i) ==
    IF i > Len(genes) THEN cc ELSE AddAll(add_slot(cc, genes[i]), genes, i + 1)

\* rebuild_from_genes: a fresh index holding the genes of the list only
rebuild_from_genes(genes) == AddAll(EmptyChecker, genes, 1)

(***************************************************************************)
(* OptimizedTimetableChromosome: construction and the CSP initializer.     *)
(* A chromosome is [genes, fitness, constraint_checker, lab_usage_tracker];*)
(* an input inp is [subjects, sections, lab_rooms, master_schedule], with  *)
(* sections a function from section id to classroom and lab_rooms the list *)
(* of lab room ids in dictionary order.                                    *)
(***************************************************************************)
SectionId(subject) == subject.semester \o "_" \o subject.section

\* the synthetic gene of a master schedule entry (scheduler.py:214-219)
FakeGene(slot) ==
    TimeSlot(slot.day, slot.period, "", "", slot.faculty_id, slot.section_id,
             slot.room_id, 0, slot.is_theory)

\* the index pre-loaded with every master schedule entry
MasterChecker(master_schedule) ==
    AddAll(EmptyChecker, [i \in DOMAIN master_schedule |-> FakeGene(master_schedule[i])], 1)

\* lab_usage_tracker after the master schedule: rooms of its non-theory entries
MasterLabUsage(master_schedule) ==
    [k \in Slots |-> {master_schedule[i].room_id : i \in
        {j \in DOMAIN master_schedule :
            /\ ~master_schedule[j].is_theory
            /\ <<master_schedule[j].day, master_schedule[j].period>> = k}}]

\* __init__: no genes, fitness 0, validated subjects, master schedule loaded
NewChromosome(inp) ==
    [genes |-> <<>>, fitness |-> 0,
     constraint_checker |-> MasterChecker(inp.master_schedule),
     lab_usage_tracker |-> MasterLabUsage(inp.master_schedule)]

ValidatedSubjects(inp) == [i \in DOMAIN inp.subjects |-> validate_subject(inp.subjects[i])]

\* the subsequence of seq whose elements satisfy P, in order
RECURSIVE Filter(_, _, _)
Filter(seq, P(_), i) ==
    IF i > Len(seq) THEN <<>>
    ELSE (IF P(seq[i]) THEN <<seq[i]>> ELSE <<>>) \o Filter(seq, P, i + 1)

\* append gene to the list and to the index
Place(st, gene) ==
    [st EXCEPT !.genes = Append(@, gene),
               !.constraint_checker = add_slot(@, gene)]

\* project blocks placed on the first days without asking the index
RECURSIVE UncheckedProjectDays(_, _, _, _, _, _)
UncheckedProjectDays(st, subject, section_id, classroom, day, scheduled) ==
    IF day >= Days \/ scheduled >= subject.lab_hours \div 3 THEN st
    ELSE
        LET gene(p) == TimeSlot(day, p, subject.subject_code, subject.subject_type,
                                subject.lab_faculty, section_id, classroom, 0, FALSE)
        IN  UncheckedProjectDays(Place(Place(Place(st, gene(4)), gene(5)), gene(6)),
                                 subject, section_id, classroom, day + 1, scheduled + 1)

\* _schedule_project_csp: the loop over the days
RECURSIVE ProjectDays(_, _, _, _, _, _)
ProjectDays(st, subject, section_id, classroom, day, scheduled) ==
    IF day >= Days \/ scheduled >= subject.lab_hours \div 3 THEN st
    ELSE
        LET all_available ==
                \A i \in DOMAIN afternoon_periods :
                    is_available(st.constraint_checker, day, afternoon_periods[i],
                                 subject.lab_faculty, section_id, classroom, FALSE)
            gene(p) == TimeSlot(day, p, subject.subject_code, subject.subject_type,
                                subject.lab_faculty, section_id, classroom, 0, FALSE)
        IN  IF all_available
            THEN ProjectDays(Place(Place(Place(st, gene(4)), gene(5)), gene(6)),
                             subject, section_id, classroom, day + 1, scheduled + 1)
            ELSE ProjectDays(st, subject, section_id, classroom, day + 1, scheduled)

_schedule_project_csp(st, inp, subject) ==
    IF subject.lab_faculty = "" THEN st
    ELSE ProjectDays(st, subject, SectionId(subject),
                     inp.sections[SectionId(subject)], 0, 0)

\* _get_available_lab_rooms: the lab rooms free for the two periods, in order
_get_available_lab_rooms(st, inp, day, start_period) ==
    LET free(room_id) == /\ room_id \notin st.lab_usage_tracker[<<day, start_period>>]
                         /\ room_id \notin st.lab_usage_tracker[<<day, start_period + 1>>]
    IN  Filter(inp.lab_rooms, free, 1)

\* _validate_parallel_lab_slot
_validate_parallel_lab_slot(st, inp, day, start_period, section_id, labs, num_parallel) ==
    IF Len(_get_available_lab_rooms(st, inp, day, start_period)) < num_parallel THEN FALSE
    ELSE IF \E i \in DOMAIN labs : \E period \in {start_period, start_period + 1} :
                ~is_available(st.constraint_checker, day, period,
                              labs[i].lab_faculty, "", "", FALSE) THEN FALSE
    ELSE IF \E period \in {start_period, start_period + 1} :
                ~is_available(st.constraint_checker, day, period, "", section_id, "", TRUE)
         THEN FALSE
    ELSE TRUE

\* the first index of seq holding x, or 0
FirstIndex(seq, x) ==
    IF \E i \in DOMAIN seq : seq[i] = x
    THEN SetMin({i \in DOMAIN seq : seq[i] = x}) ELSE 0

\* the candidate windows of a two-hour session, in the order the loops visit them
LabWindows ==
    [k \in 1 .. Days * Len(lab_starts) |->
        <<(k - 1) \div Len(lab_starts), lab_starts[((k - 1) % Len(lab_starts)) + 1]>>]

\* a session whose batches keep the same subject in every session
RECURSIVE UnrotatedSessionGenes(_, _, _, _, _, _, _)
UnrotatedSessionGenes(st, labs, rooms, section_id, session_idx, w, j) ==
    IF j >= Len(labs) THEN st
    ELSE
        LET subject == labs[j + 1]
            room_id == rooms[j + 1]
            gene(hour) == TimeSlot(w[1], w[2] + hour, subject.subject_code,
                                   subject.subject_type, subject.lab_faculty,
                                   section_id, room_id, j + 1, FALSE)
            s1 == Place(Place(st, gene(0)), gene(1))
            s2 == [s1 EXCEPT !.lab_usage_tracker[<<w[1], w[2]>>] = @ \cup {room_id},
                             !.lab_usage_tracker[<<w[1], w[2] + 1>>] = @ \cup {room_id}]
        IN  UnrotatedSessionGenes(s2, labs, rooms, section_id, session_idx, w, j + 1)

\* one rotation session placed at (day, start_period): both hours of every batch
RECURSIVE SessionGenes(_, _, _, _, _, _, _)
SessionGenes(st, labs, rooms, section_id, session_idx, w, j) ==
    IF j >= Len(labs) THEN st
    ELSE
        LET subject == labs[((j + session_idx) % Len(labs)) + 1]
            room_id == rooms[j + 1]
            gene(hour) == TimeSlot(w[1], w[2] + hour, subject.subject_code,
                                   subject.subject_type, subject.lab_faculty,
                                   section_id, room_id, j + 1, FALSE)
            s1 == Place(Place(st, gene(0)), gene(1))
            s2 == [s1 EXCEPT !.lab_usage_tracker[<<w[1], w[2]>>] = @ \cup {room_id},
                             !.lab_usage_tracker[<<w[1], w[2] + 1>>] = @ \cup {room_id}]
        IN  SessionGenes(s2, labs, rooms, section_id, session_idx, w, j + 1)

\* the rotation sessions of one section: each takes the first valid window
RECURSIVE Sessions(_, _, _, _, _)
Sessions(st, inp, labs, section_id, session_idx) ==
    IF session_idx >= Len(labs) THEN st
    ELSE
        LET ok(k) == /\ _validate_parallel_lab_slot(st, inp, LabWindows[k][1], LabWindows[k][2],
                                                    section_id, labs, Len(labs))
                     /\ Len(_get_available_lab_rooms(st, inp, LabWindows[k][1],
                                                     LabWindows[k][2])) >= Len(labs)
            found == {k \in DOMAIN LabWindows : ok(k)}
        IN  IF found = {} THEN Sessions(st, inp, labs, section_id, session_idx + 1)
            ELSE LET w == LabWindows[SetMin(found)]
                     rooms == _get_available_lab_rooms(st, inp, w[1], w[2])
                 IN  Sessions(SessionGenes(st, labs, rooms, section_id, session_idx, w, 0),
                              inp, labs, section_id, session_idx + 1)

\* _schedule_parallel_labs_csp: sections in order of first appearance; a section
\* with fewer than two lab subjects is skipped
RECURSIVE LabSections(_, _, _, _)
LabSections(st, inp, lab_subjects, i) ==
    IF i > Len(lab_subjects) THEN st
    ELSE
        LET section_id == SectionId(lab_subjects[i])
            same(sub) == SectionId(sub) = section_id
            labs == Filter(lab_subjects, same, 1)
            first == \A j \in 1 .. i - 1 : SectionId(lab_subjects[j]) # section_id
        IN  IF first /\ Len(labs) >= 2
            THEN LabSections(Sessions(st, inp, labs, section_id, 0), inp, lab_subjects, i + 1)
            ELSE LabSections(st, inp, lab_subjects, i + 1)

_schedule_parallel_labs_csp(st, inp) ==
    LET is_lab(sub) == /\ sub.lab_hours > 0
                       /\ ~is_project(sub.subject_type)
                       /\ sub.lab_faculty # ""
    IN  LabSections(st, inp, Filter(ValidatedSubjects(inp), is_lab, 1), 1)

\* _calculate_slot_score_csp
_calculate_slot_score_csp(st, day, period, section_id, subject_code) ==
    LET same_day == {i \in DOMAIN st.genes :
                        st.genes[i].section_id = section_id /\ st.genes[i].day = day}
        day_periods == {st.genes[i].period : i \in same_day}
        continuity ==
            IF day_periods = {} THEN 0
            ELSE IF period = SetMax(day_periods) + 1 \/ period = SetMin(day_periods) - 1
                 THEN 80
            ELSE - (SetMin({Abs(period - p) : p \in day_periods}) * 15)
        repeated == IF \E i \in same_day : st.genes[i].subject_code = subject_code
                    THEN -100 ELSE 0
        early == IF period = 0 THEN 50 ELSE 0
    IN  100 + continuity + repeated + early

\* the slots of the given periods, in the order of the nested loops
SlotList(periods) ==
    [k \in 1 .. Days * Len(periods) |->
        <<(k - 1) \div Len(periods), periods[((k - 1) % Len(periods)) + 1]>>]

\* a scan that keeps the last of the best slots
RECURSIVE ScanForLast(_, _, _, _, _, _, _, _)
ScanForLast(st, subject, section_id, classroom, slots, penalty, best, k) ==
    IF k > Len(slots) THEN best
    ELSE
        LET day == slots[k][1]
            period == slots[k][2]
            score == _calculate_slot_score_csp(st, day, period, section_id,
                                               subject.subject_code) - penalty
        IN  IF /\ is_available(st.constraint_checker, day, period,
                               subject.theory_faculty, section_id, classroom, TRUE)
               /\ score >= best.score
            THEN ScanForLast(st, subject, section_id, classroom, slots, penalty,
                           [score |-> score, slot |-> slots[k]], k + 1)
            ELSE ScanForLast(st, subject, section_id, classroom, slots, penalty, best, k + 1)

\* the scan `if score > best_score` over a slot list; best is [score, slot]
RECURSIVE ScanSlots(_, _, _, _, _, _, _, _)
ScanSlots(st, subject, section_id, classroom, slots, penalty, best, k) ==
    IF k > Len(slots) THEN best
    ELSE
        LET day == slots[k][1]
            period == slots[k][2]
            score == _calculate_slot_score_csp(st, day, period, section_id,
                                               subject.subject_code) - penalty
        IN  IF /\ is_available(st.constraint_checker, day, period,
                               subject.theory_faculty, section_id, classroom, TRUE)
               /\ score > best.score
            THEN ScanSlots(st, subject, section_id, classroom, slots, penalty,
                           [score |-> score, slot |-> slots[k]], k + 1)
            ELSE ScanSlots(st, subject, section_id, classroom, slots, penalty, best, k + 1)

NoSlot == <<>>

\* the two phases in the opposite order: afternoon first
AfternoonFirstTheory(st, inp, subject) ==
    IF subject.theory_faculty = "" THEN st
    ELSE
        LET section_id == SectionId(subject)
            classroom == inp.sections[section_id]
            start == [score |-> -1000, slot |-> NoSlot]
            afternoon == ScanSlots(st, subject, section_id, classroom,
                                   SlotList(afternoon_periods), 200, start, 1)
            best == IF afternoon.slot = NoSlot
                    THEN ScanSlots(st, subject, section_id, classroom,
                                   SlotList(morning_periods), 0, afternoon, 1)
                    ELSE afternoon
        IN  IF best.slot = NoSlot THEN st
            ELSE Place(st, TimeSlot(best.slot[1], best.slot[2], subject.subject_code,
                                    subject.subject_type, subject.theory_faculty,
                                    section_id, classroom, 0, TRUE))

\* _schedule_theory_with_csp: morning first, afternoon only if no morning slot
_schedule_theory_with_csp(st, inp, subject) ==
    IF subject.theory_faculty = "" THEN st
    ELSE
        LET section_id == SectionId(subject)
            classroom == inp.sections[section_id]
            start == [score |-> -1000, slot |-> NoSlot]
            morning == ScanSlots(st, subject, section_id, classroom,
                                 SlotList(morning_periods), 0, start, 1)
            best == IF morning.slot = NoSlot
                    THEN ScanSlots(st, subject, section_id, classroom,
                                   SlotList(afternoon_periods), 200, morning, 1)
                    ELSE morning
        IN  IF best.slot = NoSlot THEN st
            ELSE Place(st, TimeSlot(best.slot[1], best.slot[2], subject.subject_code,
                                    subject.subject_type, subject.theory_faculty,
                                    section_id, classroom, 0, TRUE))

RECURSIVE ProjectPhase(_, _, _, _)
ProjectPhase(st, inp, subs, i) ==
    IF i > Len(subs) THEN st
    ELSE ProjectPhase(IF is_project(subs[i].subject_type)
                      THEN _schedule_project_csp(st, inp, subs[i]) ELSE st,
                      inp, subs, i + 1)

\* theory_hours before the shuffle: every subject once per theory hour
RECURSIVE TheoryHours(_, _)
TheoryHours(subs, i) ==
    IF i > Len(subs) THEN <<>>
    ELSE [k \in 1 .. subs[i].theory_hours |-> subs[i]] \o TheoryHours(subs, i + 1)

\* the outcomes of random.shuffle on a list of n items
Shuffles(n) == {f \in [1 .. n -> 1 .. n] : \A a, b \in 1 .. n : f[a] = f[b] => a = b}

RECURSIVE TheoryPhase(_, _, _, _, _)
TheoryPhase(st, inp, hours, order, i) ==
    IF i > Len(hours) THEN st
    ELSE TheoryPhase(_schedule_theory_with_csp(st, inp, hours[order[i]]),
                     inp, hours, order, i + 1)

\* initialize_with_csp, with `order` the outcome of the shuffle of theory_hours
initialize_with_csp(chromosome, inp, order) ==
    LET subs == ValidatedSubjects(inp)
        st0 == [chromosome EXCEPT
                    !.genes = <<>>,
                    !.constraint_checker = MasterChecker(inp.master_schedule),
                    !.lab_usage_tracker = MasterLabUsage(inp.master_schedule)]
        st1 == ProjectPhase(st0, inp, subs, 1)
        st2 == _schedule_parallel_labs_csp(st1, inp)
    IN  TheoryPhase(st2, inp, TheoryHours(subs, 1), order, 1)

(***************************************************************************)
(* The fitness evaluator.                                                  *)
(***************************************************************************)
\* an evaluator that counts no double-booking at all: the variant against which
\* the bound of the gap term is shown to rest on the conflict weights
NoConflictsCounted(genes, resource_type) == 0

\* _count_conflicts_fast: k genes on one (resource, day, period) count k - 1
_count_conflicts_fast(genes, resource_type) ==
    LET counted == {i \in DOMAIN genes : resource_type # "room" \/ genes[i].is_theory}
        key(i) == <<(CASE resource_type = "faculty" -> genes[i].faculty_id
                       [] resource_type = "section" -> genes[i].section_id
                       [] OTHER -> genes[i].room_id),
                    genes[i].day, genes[i].period>>
        keys == {key(i) : i \in counted}
        slot_counts == [k \in keys |-> Cardinality({i \in counted : key(i) = k})]
    IN  SumOver([k \in keys |-> IF slot_counts[k] > 1 THEN slot_counts[k] - 1 ELSE 0], keys)

\* TRUE iff the sorted periods of the positions in I have a step other than 1
\* (a repeated period is a step of 0)
HasBreak(genes, I) ==
    LET ps == {genes[i].period : i \in I}
    IN  \/ Cardinality(ps) < Cardinality(I)
        \/ \E p \in ps : p # SetMax(ps) /\ p + 1 \notin ps

\* _check_lab_continuity
_check_lab_continuity(genes) ==
    LET labs == {i \in DOMAIN genes : ~genes[i].is_theory}
        key(i) == <<genes[i].subject_code, genes[i].section_id,
                    genes[i].batch_number, genes[i].day>>
        keys == {key(i) : i \in labs}
        group(k) == {i \in labs : key(i) = k}
    IN  Cardinality({k \in keys : Cardinality(group(k)) >= 2 /\ HasBreak(genes, group(k))})

\* _check_project_continuity
_check_project_continuity(genes) ==
    LET proj == {i \in DOMAIN genes : is_project(genes[i].subject_type)}
        key(i) == <<genes[i].section_id, genes[i].day>>
        keys == {key(i) : i \in proj}
        group(k) == {i \in proj : key(i) = k}
    IN  Cardinality({k \in keys :
            \/ Cardinality(group(k)) # 3
            \/ {genes[i].period : i \in group(k)} # Range(afternoon_periods)})

\* _check_gaps: (span - count) * 2 for every (section, day)
_check_gaps(genes) ==
    LET key(i) == <<genes[i].section_id, genes[i].day>>
        keys == {key(i) : i \in DOMAIN genes}
        group(k) == {i \in DOMAIN genes : key(i) = k}
        periods(k) == {genes[i].period : i \in group(k)}
    IN  SumOver([k \in keys |->
                    (SetMax(periods(k)) - SetMin(periods(k)) + 1 - Cardinality(group(k))) * 2],
                keys)

\* _check_theory_distribution: more than two hours of a subject on one day
_check_theory_distribution(genes) ==
    LET th == {i \in DOMAIN genes : genes[i].is_theory}
        key(i) == <<genes[i].subject_code, genes[i].section_id, genes[i].day>>
        keys == {key(i) : i \in th}
        count(k) == Cardinality({i \in th : key(i) = k})
    IN  SumOver([k \in keys |-> IF count(k) > 2 THEN count(k) - 2 ELSE 0], keys)

\* the afternoon count before it was tripled ("Changed from * 1 to * 3")
SingleAfternoonPenalty(genes) ==
    Cardinality({i \in DOMAIN genes :
        /\ genes[i].is_theory
        /\ ~is_project(genes[i].subject_type)
        /\ genes[i].period \in Range(afternoon_periods)})

\* _penalize_theory_afternoon: three per theory gene in an afternoon period
_penalize_theory_afternoon(genes) ==
    Cardinality({i \in DOMAIN genes :
        /\ genes[i].is_theory
        /\ ~is_project(genes[i].subject_type)
        /\ genes[i].period \in Range(afternoon_periods)}) * 3

\* _penalize_sparse_days
_penalize_sparse_days(genes) ==
    LET key(i) == <<genes[i].section_id, genes[i].day>>
        keys == {key(i) : i \in DOMAIN genes}
        count(k) == Cardinality({i \in DOMAIN genes : key(i) = k})
    IN  SumOver([k \in keys |-> IF count(k) <= 2 THEN 3 - count(k) ELSE 0], keys)

\* the sum of the weighted violations subtracted from 1000
Penalty(genes) ==
      _count_conflicts_fast(genes, "faculty") * 500
    + _count_conflicts_fast(genes, "section") * 500
    + _count_conflicts_fast(genes, "room") * 400
    + _check_lab_continuity(genes) * 200
    + _check_project_continuity(genes) * 300
    + _check_gaps(genes) * 100
    + _check_theory_distribution(genes) * 50
    + _penalize_theory_afternoon(genes) * 100
    + _penalize_sparse_days(genes) * 30

\* calculate_fitness: max(0, 1000 - penalties)
calculate_fitness(genes) == Max2(0, 1000 - Penalty(genes))

\* the hard-constraint count of the final report (scheduler.py:1058)
hard_constraint_score(genes) ==
      _count_conflicts_fast(genes, "faculty")
    + _count_conflicts_fast(genes, "section")
    + _count_conflicts_fast(genes, "room")
    + _check_lab_continuity(genes)
    + _check_project_continuity(genes)

\* the quality tier of the final report (scheduler.py:1076-1091)
quality(genes, fitness) ==
    IF hard_constraint_score(genes) = 0
    THEN IF fitness >= 950 THEN "EXCELLENT"
         ELSE IF fitness >= 850 THEN "VERY GOOD"
         ELSE IF fitness >= 700 THEN "GOOD"
         ELSE "ACCEPTABLE"
    ELSE "UNACCEPTABLE"

(***************************************************************************)
(* Tabu local search.  The random draws of one run are resolved as a set:  *)
(* the operators below carry the set of states the run can be in.          *)
(***************************************************************************)
tabu_size == 20
TabuSamples == 10

\* list with the elements at positions i and j exchanged
SwapAt(seq, i, j) ==
    [k \in DOMAIN seq |-> IF k = i THEN seq[j] ELSE IF k = j THEN seq[i] ELSE seq[k]]

\* one draw of (idx1, idx2) in the sampling loop; t is [best_move, best_fitness,
\* checker] and s the state of the search [genes, checker, current_fitness, tabu_list]
TabuTrial(s, t, idx1, idx2) ==
    IF idx1 = idx2 \/ ~s.genes[idx1].is_theory \/ ~s.genes[idx2].is_theory THEN t
    ELSE IF \E k \in DOMAIN s.tabu_list : s.tabu_list[k] = <<idx1, idx2>> THEN t
    ELSE
        LET swapped == SwapAt(s.genes, idx1, idx2)
            new_fitness == calculate_fitness(swapped)
            t1 == [t EXCEPT !.checker = rebuild_from_genes(swapped)]
        IN  IF new_fitness > t.best_fitness
            THEN [t1 EXCEPT !.best_fitness = new_fitness, !.best_move = <<idx1, idx2>>]
            ELSE t1

RECURSIVE TabuSampling(_, _, _)
TabuSampling(s, T, n) ==
    IF n = 0 \/ Len(s.genes) < 2 THEN T
    ELSE LET next == UNION {{TabuTrial(s, t, a, b) : a, b \in DOMAIN s.genes} : t \in T}
         IN  IF next = T THEN T ELSE TabuSampling(s, next, n - 1)

\* one iteration of the search from state s: the states it can end in
TabuIteration(s) ==
    IF s.current_fitness >= 1000 THEN {s}
    ELSE
        LET start == [best_move |-> <<>>, best_fitness |-> s.current_fitness,
                      checker |-> s.checker]
            commit(t) ==
                IF t.best_move = <<>> THEN [s EXCEPT !.checker = t.checker]
                ELSE LET genes == SwapAt(s.genes, t.best_move[1], t.best_move[2])
                         tabu == Append(s.tabu_list, t.best_move)
                     IN  [genes |-> genes,
                          checker |-> rebuild_from_genes(genes),
                          current_fitness |-> t.best_fitness,
                          tabu_list |-> IF Len(tabu) > tabu_size THEN Tail(tabu) ELSE tabu]
        IN  {commit(t) : t \in TabuSampling(s, {start}, TabuSamples)}

RECURSIVE TabuIterations(_, _)
TabuIterations(S, n) ==
    IF n = 0 THEN S
    ELSE LET next == UNION {TabuIteration(s) : s \in S}
         IN  IF next = S THEN S ELSE TabuIterations(next, n - 1)

\* tabu_local_search(max_iterations): the chromosomes the search can leave; both
\* callers recompute the fitness right after the search
tabu_local_search(chromosome, max_iterations) ==
    LET start == [genes |-> chromosome.genes,
                  checker |-> chromosome.constraint_checker,
                  current_fitness |-> calculate_fitness(chromosome.genes),
                  tabu_list |-> <<>>]
    IN  {[chromosome EXCEPT !.genes = s.genes,
                            !.constraint_checker = s.checker,
                            !.fitness = s.current_fitness] :
            s \in TabuIterations({start}, max_iterations)}

\* a freeness test that looks at the list only
slot_free_in_list(genes, master_schedule, day, start_period, faculty_id, section_id, room_id, exclude_indices) ==
    \A period \in {start_period, start_period + 1} :
        \A idx \in DOMAIN genes \ exclude_indices :
            (genes[idx].day = day /\ genes[idx].period = period) =>
                /\ genes[idx].faculty_id # faculty_id
                /\ genes[idx].section_id # section_id
                /\ genes[idx].room_id # room_id

(***************************************************************************)
(* Lab-continuity repair.                                                  *)
(***************************************************************************)
\* _is_continuous_slot_available: both periods free of the other genes and of
\* the master schedule for the faculty, the section and the room
_is_continuous_slot_available(genes, master_schedule, day, start_period, faculty_id, section_id, room_id, exclude_indices) ==
    \A period \in {start_period, start_period + 1} :
        /\ \A idx \in DOMAIN genes \ exclude_indices :
              (genes[idx].day = day /\ genes[idx].period = period) =>
                  /\ genes[idx].faculty_id # faculty_id
                  /\ genes[idx].section_id # section_id
                  /\ genes[idx].room_id # room_id
        /\ \A k \in DOMAIN master_schedule :
              (master_schedule[k].day = day /\ master_schedule[k].period = period) =>
                  /\ master_schedule[k].faculty_id # faculty_id
                  /\ master_schedule[k].section_id # section_id
                  /\ master_schedule[k].room_id # room_id

\* the key of a lab session: (subject, section, batch, day)
SessionKey(gene) == <<gene.subject_code, gene.section_id, gene.batch_number, gene.day>>

\* the places searched for a broken pair: its own day first, then the other
\* days in order, each with the start periods 0, 2, 4
RepairWindows(day) ==
    LET own == [k \in 1 .. Len(lab_starts) |-> <<day, lab_starts[k]>>]
        other(w) == w[1] # day
    IN  own \o Filter(LabWindows, other, 1)

\* the repair of the session made of the positions idxs of the original list;
\* r is [genes, lab_usage_tracker, repairs_successful]
RepairSession(r, master_schedule, idxs) ==
    LET i1 == SetMin(idxs)
        i2 == SetMax(idxs)
        gene1 == r.genes[i1]
        lo == SetMin({r.genes[i1].period, r.genes[i2].period})
        hi == SetMax({r.genes[i1].period, r.genes[i2].period})
        windows == RepairWindows(gene1.day)
        ok(k) == _is_continuous_slot_available(r.genes, master_schedule,
                    windows[k][1], windows[k][2], gene1.faculty_id,
                    gene1.section_id, gene1.room_id, idxs)
        found == {k \in DOMAIN windows : ok(k)}
    IN  IF Cardinality(idxs) # 2 \/ hi - lo = 1 \/ found = {} THEN r
        ELSE
            LET w == windows[SetMin(found)]
                moved == [r.genes EXCEPT ![i1].day = w[1], ![i1].period = w[2],
                                         ![i2].day = w[1], ![i2].period = w[2] + 1]
                tracker == IF w[1] = gene1.day THEN r.lab_usage_tracker
                           ELSE [r.lab_usage_tracker EXCEPT
                                    ![<<w[1], w[2]>>] = @ \cup {gene1.room_id},
                                    ![<<w[1], w[2] + 1>>] = @ \cup {gene1.room_id}]
            IN  [genes |-> moved, lab_usage_tracker |-> tracker,
                 repairs_successful |-> r.repairs_successful + 1]

\* the sessions in the order of their first gene; orig is the list before repair
RECURSIVE RepairLoop(_, _, _, _)
RepairLoop(r, master_schedule, orig, i) ==
    IF i > Len(orig) THEN r
    ELSE
        LET labs == {k \in DOMAIN orig : ~orig[k].is_theory}
            idxs == {k \in labs : SessionKey(orig[k]) = SessionKey(orig[i])}
        IN  IF i \in labs /\ i = SetMin(idxs)
            THEN RepairLoop(RepairSession(r, master_schedule, idxs), master_schedule, orig, i + 1)
            ELSE RepairLoop(r, master_schedule, orig, i + 1)

\* repair_lab_continuity_post_generation: the chromosome after the repair and
\* the number of repairs; the index is rebuilt when a repair succeeded
repair_lab_continuity_post_generation(chromosome, master_schedule) ==
    LET r == RepairLoop([genes |-> chromosome.genes,
                         lab_usage_tracker |-> chromosome.lab_usage_tracker,
                         repairs_successful |-> 0],
                        master_schedule, chromosome.genes, 1)
    IN  [chromosome |->
            [chromosome EXCEPT
                !.genes = r.genes,
                !.lab_usage_tracker = r.lab_usage_tracker,
                !.constraint_checker =
                    IF r.repairs_successful > 0 THEN rebuild_from_genes(r.genes) ELSE @],
         repairs_made |-> r.repairs_successful]

(***************************************************************************)
(* generate_semester_timetable: the state of one solve.                    *)
(***************************************************************************)
VARIABLES
    inp,                \* the input of the solve
    population,         \* the list of chromosomes
    best_ever,          \* the best chromosome seen by the tracking step
    best_alias,         \* position in population of the object best_ever is, or 0
    stagnation_counter,
    generation,
    next_pop,
    pc,                 \* the position in the driver
    result,             \* the list the driver returns
    attempt,            \* generate_timetable_with_retry: the attempt number
    best_result,        \* its best_result (NoResult for None)
    best_fitness,       \* its best_fitness
    max_attempts,       \* its parameters
    fitness_threshold,
    attempts,           \* history: best_ever.fitness and the result of every finished attempt
    returned,           \* what generate_timetable_with_retry returned
    candidate           \* a chromosome handed to calculate_fitness on its own

vars == <<inp, population, best_ever, best_alias, stagnation_counter, generation,
          next_pop, pc, result, attempt, best_result, best_fitness,
          max_attempts, fitness_threshold, attempts, returned, candidate>>

solve_vars == <<inp, population, best_ever, best_alias, stagnation_counter,
                generation, next_pop, result>>
retry_vars == <<attempt, best_result, best_fitness, max_attempts, fitness_threshold,
                attempts, returned>>

NoChromosome == [genes |-> <<>>, fitness |-> -1,
                 constraint_checker |-> EmptyChecker,
                 lab_usage_tracker |-> [k \in Slots |-> {}]]
\* Python values: None, a list of gene dictionaries, the dictionary of the wrapper
NoResult == [type |-> "None"]
ListResult(genes) == [type |-> "list", items |-> genes]

\* a chromosome built and evaluated (scheduler.py:891-896 and 937-942)
FreshChromosomes(input) ==
    {LET c == initialize_with_csp(NewChromosome(input), input, order)
     IN  [c EXCEPT !.fitness = calculate_fitness(c.genes)] :
        order \in Shuffles(Len(TheoryHours(ValidatedSubjects(input), 1)))}

\* position of the first chromosome of maximal fitness (max(..., key=fitness))
FirstBest(pop) ==
    SetMin({i \in DOMAIN pop : \A j \in DOMAIN pop : pop[j].fitness <= pop[i].fitness})

\* population.sort(key=fitness, reverse=True) is stable: SortedPosition(pop, i)
\* is the place chromosome i moves to
SortedPosition(pop, i) ==
    1 + Cardinality({j \in DOMAIN pop : pop[j].fitness > pop[i].fitness})
      + Cardinality({j \in 1 .. i - 1 : pop[j].fitness = pop[i].fitness})

SortedPopulation(pop) ==
    [k \in DOMAIN pop |-> pop[CHOOSE i \in DOMAIN pop : SortedPosition(pop, i) = k]]

\* max(random.sample(population, 3), key=fitness): the positions that can win
Tournament(pop) ==
    {i \in DOMAIN pop :
        \E T \in SUBSET (DOMAIN pop) :
            /\ Cardinality(T) = 3
            /\ i \in T
            /\ \A j \in T : pop[j].fitness <= pop[i].fitness}

\* one-point crossover of deep copies of p1 and p2 at pt (scheduler.py:962-970)
Crossover(p1, p2, pt) ==
    LET g1 == SubSeq(p1.genes, 1, pt) \o SubSeq(p2.genes, pt + 1, Len(p2.genes))
        g2 == SubSeq(p2.genes, 1, pt) \o SubSeq(p1.genes, pt + 1, Len(p1.genes))
    IN  <<[p1 EXCEPT !.genes = g1, !.constraint_checker = rebuild_from_genes(g1)],
          [p2 EXCEPT !.genes = g2, !.constraint_checker = rebuild_from_genes(g2)]>>

\* the cut points random.randint(1, min(len) - 1) can return
CutPoints(p1, p2) ==
    IF Len(p1.genes) > 1 /\ Len(p2.genes) > 1
    THEN 1 .. (SetMin({Len(p1.genes), Len(p2.genes)}) - 1) ELSE {}

\* the children of p1 and p2 before mutation: crossed at a cut point, or copies
Children(p1, p2) ==
    {Crossover(p1, p2, pt) : pt \in CutPoints(p1, p2)} \cup {<<p1, p2>>}

\* swap mutation: the list entries at idx1 and idx2 exchanged, index rebuilt
Mutate(child, idx1, idx2) ==
    LET genes == SwapAt(child.genes, idx1, idx2)
    IN  [child EXCEPT !.genes = genes, !.constraint_checker = rebuild_from_genes(genes)]

\* the child after the mutation step and calculate_fitness (scheduler.py:975-981)
Mutated(child) ==
    LET evaluated(c) == [c EXCEPT !.fitness = calculate_fitness(c.genes)]
    IN  {evaluated(child)} \cup
        {evaluated(Mutate(child, idx1, idx2)) :
            <<idx1, idx2>> \in {q \in (DOMAIN child.genes) \X (DOMAIN child.genes) : q[1] # q[2]}}

(***************************************************************************)
(* The inputs of the solves the model runs.                                *)
(***************************************************************************)
Sections == ("6_A" :> "R1" @@ "6_B" :> "R2")

Subject(code, type, theory_hours, lab_hours, theory_faculty, lab_faculty, section) ==
    [subject_code |-> code, subject_type |-> type, theory_hours |-> theory_hours,
     lab_hours |-> lab_hours, theory_faculty |-> theory_faculty,
     lab_faculty |-> lab_faculty, no_of_batches |-> 2, section |-> section,
     semester |-> "6"]

MasterEntry(day, period, faculty, section, room, theory) ==
    [day |-> day, period |-> period, faculty_id |-> faculty, section_id |-> section,
     room_id |-> room, is_theory |-> theory]

\* another semester occupies the faculty in every morning period of every day
MorningsTaken(faculty) ==
    [k \in 1 .. Days * 4 |->
        MasterEntry((k - 1) \div 4, (k - 1) % 4, faculty, "4_Z", "R9", TRUE)]

\* another semester occupies the faculty at the start of every lab window but the first
WindowsTaken(faculty) ==
    [k \in 1 .. Len(LabWindows) - 1 |->
        MasterEntry(LabWindows[k + 1][1], LabWindows[k + 1][2], faculty, "4_Z", "R9", TRUE)]

Input(subjects, lab_rooms, master_schedule) ==
    [subjects |-> subjects, sections |-> Sections, lab_rooms |-> lab_rooms,
     master_schedule |-> master_schedule]

\* two sections share one faculty whose mornings are taken
TheoryContended ==
    Input(<<Subject("A", "PCC", 1, 0, "F2", "", "B"),
            Subject("B", "PCC", 1, 0, "F2", "", "A")>>, <<>>, MorningsTaken("F2"))

\* the same subjects with nothing pre-committed
TheoryFree ==
    Input(<<Subject("A", "PCC", 1, 0, "F2", "", "B"),
            Subject("B", "PCC", 1, 0, "F2", "", "A")>>, <<>>, <<>>)

\* a project whose classroom another semester uses on day 0, period 4
ProjectRoomTaken ==
    Input(<<Subject("PR", "MP", 0, 3, "", "F3", "A")>>, <<>>,
          <<MasterEntry(0, 4, "F9", "4_Z", "R1", TRUE)>>)

\* a single lab subject with free lab rooms
SingleLab ==
    Input(<<Subject("L1", "PCCL", 0, 2, "", "F1", "A")>>, <<"LAB1", "LAB2">>, <<>>)

\* two lab subjects of one section taught by the same faculty
ParallelLabsOneFaculty ==
    Input(<<Subject("L1", "PCCL", 0, 2, "", "F1", "A"),
            Subject("L2", "PCCL", 0, 2, "", "F1", "A")>>, <<"LAB1", "LAB2">>,
          WindowsTaken("F1"))

\* Scenario A: one section, one subject of three theory hours, nothing pre-committed
SingleSectionSanity ==
    Input(<<Subject("X", "PCC", 3, 0, "F1", "", "A")>>, <<>>, <<>>)

\* Scenario C: one section, one project of two three-hour blocks
ProjectEnforcement ==
    Input(<<Subject("PR", "MP", 0, 6, "", "F3", "A")>>, <<>>, <<>>)

Inputs ==
    {TheoryContended, TheoryFree, ProjectRoomTaken, SingleLab, ParallelLabsOneFaculty,
     SingleSectionSanity, ProjectEnforcement}

\* one section with one subject of two theory hours
TwoTheoryHours ==
    Input(<<Subject("X", "PCC", 2, 0, "F1", "", "A")>>, <<>>, <<>>)

\* one section with one project of one three-hour block
OneProject ==
    Input(<<Subject("PR", "MP", 0, 3, "", "F3", "A")>>, <<>>, <<>>)

\* the inputs solved with the larger population
EliteInputs == {TwoTheoryHours, OneProject}

\* the adaptive parameters of the driver (scheduler.py:861-866)
population_size == IF inp \in EliteInputs THEN ElitePopSize ELSE PopSize
generations == IF inp \in EliteInputs THEN EliteGenerations ELSE Generations
no_elites == (population_size * 15) \div 1000
elite_count == (population_size * 15) \div 100

(***************************************************************************)
(* generate_semester_timetable: the steps of one solve.                    *)
(***************************************************************************)
StartSolve(input) ==
    /\ inp = input
    /\ population = <<>>
    /\ best_ever = NoChromosome
    /\ best_alias = 0
    /\ stagnation_counter = 0
    /\ generation = 0
    /\ next_pop = <<>>
    /\ result = NoResult

\* the solve is called directly, as app.py does
NoRetry ==
    /\ attempt = 0
    /\ best_result = NoResult
    /\ best_fitness = -1
    /\ max_attempts = 0
    /\ fitness_threshold = 0
    /\ attempts = <<>>
    /\ returned = NoResult

NoCandidate ==
    candidate = NoChromosome

Init ==
    /\ \E input \in Inputs : StartSolve(input)
    /\ pc = "populate"
    /\ NoRetry
    /\ NoCandidate

\* scheduler.py:890-896: one more chromosome of the initial population
CreateChromosome ==
    /\ pc = "populate"
    /\ Len(population) < population_size
    /\ \E c \in FreshChromosomes(inp) : population' = Append(population, c)
    /\ UNCHANGED <<inp, best_ever, best_alias, stagnation_counter, generation,
                   next_pop, pc, result>>
    /\ UNCHANGED <<retry_vars, candidate>>

\* scheduler.py:902-903: best_ever is the first best chromosome itself, not a copy
SelectBest ==
    /\ pc = "populate"
    /\ Len(population) = population_size
    /\ best_ever' = population[FirstBest(population)]
    /\ best_alias' = FirstBest(population)
    /\ stagnation_counter' = 0
    /\ generation' = 0
    /\ pc' = "sort"
    /\ UNCHANGED <<inp, population, next_pop, result>>
    /\ UNCHANGED <<retry_vars, candidate>>

\* scheduler.py:912-920: sort, then track the best by deep copy
SortAndTrack ==
    /\ pc = "sort"
    /\ population' = SortedPopulation(population)
    /\ IF population'[1].fitness > best_ever.fitness
       THEN /\ best_ever' = population'[1]
            /\ best_alias' = 0
            /\ stagnation_counter' = 0
       ELSE /\ best_ever' = best_ever
            /\ best_alias' = IF best_alias = 0 THEN 0
                             ELSE SortedPosition(population, best_alias)
            /\ stagnation_counter' = stagnation_counter + 1
    /\ pc' = "check"
    /\ UNCHANGED <<inp, generation, next_pop, result>>
    /\ UNCHANGED <<retry_vars, candidate>>

\* scheduler.py:929-931: early stopping
EarlyStop ==
    /\ pc = "check"
    /\ best_ever.fitness >= 1000
    /\ population' = <<>>
    /\ best_alias' = 0
    /\ pc' = "repair"
    /\ UNCHANGED <<inp, best_ever, stagnation_counter, generation, next_pop, result>>
    /\ UNCHANGED <<retry_vars, candidate>>

\* an injection that replaces the strongest quarter instead
InjectStrongest ==
    /\ pc = "check"
    /\ best_ever.fitness < 1000
    /\ stagnation_counter > StagnationLimit
    /\ LET n == population_size \div 4
           replaced == 1 .. n
       IN  /\ \E fresh \in [replaced -> FreshChromosomes(inp)] :
                population' = [k \in DOMAIN population |->
                                  IF k \in replaced THEN fresh[k] ELSE population[k]]
           /\ best_alias' = IF best_alias \in replaced THEN 0 ELSE best_alias
    /\ stagnation_counter' = 0
    /\ pc' = "elite"
    /\ UNCHANGED <<inp, best_ever, generation, next_pop, result>>
    /\ UNCHANGED <<retry_vars, candidate>>

\* scheduler.py:934-943: the weakest quarter is replaced by fresh chromosomes
InjectDiversity ==
    /\ pc = "check"
    /\ best_ever.fitness < 1000
    /\ stagnation_counter > StagnationLimit
    /\ LET n == population_size \div 4
           replaced == (population_size - n + 1) .. population_size
       IN  /\ \E fresh \in [replaced -> FreshChromosomes(inp)] :
                population' = [k \in DOMAIN population |->
                                  IF k \in replaced THEN fresh[k] ELSE population[k]]
           /\ best_alias' = IF best_alias \in replaced THEN 0 ELSE best_alias
    /\ stagnation_counter' = 0
    /\ pc' = "elite"
    /\ UNCHANGED <<inp, best_ever, generation, next_pop, result>>
    /\ UNCHANGED <<retry_vars, candidate>>

SkipInjection ==
    /\ pc = "check"
    /\ best_ever.fitness < 1000
    /\ stagnation_counter <= StagnationLimit
    /\ pc' = "elite"
    /\ UNCHANGED solve_vars
    /\ UNCHANGED <<retry_vars, candidate>>

\* scheduler.py:946-952: the elites are the chromosomes of the population
\* themselves; the first five are searched in place and re-evaluated
Elitism ==
    /\ pc = "elite"
    /\ LET searched == 1 .. SetMin({5, elite_count})
           after(i) == {[c EXCEPT !.fitness = calculate_fitness(c.genes)] :
                           c \in tabu_local_search(population[i], 30)}
       IN  \E new \in [searched -> UNION {after(i) : i \in searched}] :
              /\ \A i \in searched : new[i] \in after(i)
              /\ population' = [k \in DOMAIN population |->
                                   IF k \in searched THEN new[k] ELSE population[k]]
              /\ best_ever' = IF best_alias \in searched THEN new[best_alias] ELSE best_ever
    /\ next_pop' = SubSeq(population', 1, elite_count)
    /\ pc' = "offspring"
    /\ UNCHANGED <<inp, best_alias, stagnation_counter, generation, result>>
    /\ UNCHANGED <<retry_vars, candidate>>

\* scheduler.py:956-981: one pass of the offspring loop body: two parents by
\* tournament, crossover, mutation of each child
OffspringPairs(pop) ==
    UNION { UNION { Mutated(pair[1]) \X Mutated(pair[2]) :
                    pair \in Children(pop[i1], pop[i2]) } :
            <<i1, i2>> \in Tournament(pop) \X Tournament(pop) }

\* scheduler.py:955-983: a pass of the offspring loop after which the next
\* population is still not full
Offspring ==
    /\ pc = "offspring"
    /\ generation + 1 < generations
    /\ Len(next_pop) + 2 < population_size
    /\ \E pair \in OffspringPairs(population) :
          next_pop' = next_pop \o pair
    /\ UNCHANGED <<inp, population, best_ever, best_alias, stagnation_counter,
                   generation, pc, result>>
    /\ UNCHANGED <<retry_vars, candidate>>

\* scheduler.py:955-985 and the loop header at 907: the pass of the offspring
\* loop that fills the next population, which is then cut to population_size;
\* in the last generation, all the passes of the offspring loop: population
\* and next_pop are not read after it
EndGeneration ==
    /\ pc = "offspring"
    /\ Len(next_pop) < population_size
    /\ generation + 1 < generations => Len(next_pop) + 2 >= population_size
    /\ generation' = generation + 1
    /\ next_pop' = <<>>
    /\ IF generation + 1 < generations
       THEN /\ \E pair \in OffspringPairs(population) :
                  population' = SubSeq(next_pop \o pair, 1, population_size)
            /\ best_alias' = IF best_alias \in 1 .. elite_count THEN best_alias ELSE 0
            /\ pc' = "sort"
       ELSE /\ population' = <<>>
            /\ best_alias' = 0
            /\ pc' = "repair"
    /\ UNCHANGED <<inp, best_ever, stagnation_counter, result>>
    /\ UNCHANGED <<retry_vars, candidate>>

\* scheduler.py:988-994: repair of best_ever, fitness recomputed after a repair
Repair ==
    /\ pc = "repair"
    /\ LET r == repair_lab_continuity_post_generation(best_ever, inp.master_schedule)
       IN  best_ever' = IF r.repairs_made > 0
                        THEN [r.chromosome EXCEPT !.fitness = calculate_fitness(r.chromosome.genes)]
                        ELSE r.chromosome
    /\ pc' = "final"
    /\ UNCHANGED <<inp, population, best_alias, stagnation_counter, generation,
                   next_pop, result>>
    /\ UNCHANGED <<retry_vars, candidate>>

\* a final local search whatever the fitness
FinalSearchAlways ==
    /\ pc = "final"
    /\ \E c \in tabu_local_search(best_ever, 50) :
          best_ever' = [c EXCEPT !.fitness = calculate_fitness(c.genes)]
    /\ pc' = "return"
    /\ UNCHANGED <<inp, population, best_alias, stagnation_counter, generation,
                   next_pop, result>>
    /\ UNCHANGED <<retry_vars, candidate>>

\* scheduler.py:997-1001: one more local search when the fitness is below 900
FinalLocalSearch ==
    /\ pc = "final"
    /\ best_ever.fitness < 900
    /\ \E c \in tabu_local_search(best_ever, 50) :
          best_ever' = [c EXCEPT !.fitness = calculate_fitness(c.genes)]
    /\ pc' = "return"
    /\ UNCHANGED <<inp, population, best_alias, stagnation_counter, generation,
                   next_pop, result>>
    /\ UNCHANGED <<retry_vars, candidate>>

\* scheduler.py:1111-1124: both branches return the list of genes
Return ==
    /\ \/ pc = "return"
       \/ pc = "final" /\ best_ever.fitness >= 900
    /\ result' = ListResult(best_ever.genes)
    /\ pc' = "done"
    /\ UNCHANGED <<inp, population, best_ever, best_alias, stagnation_counter,
                   generation, next_pop>>
    /\ UNCHANGED <<retry_vars, candidate>>

Next ==
    \/ CreateChromosome
    \/ SelectBest
    \/ SortAndTrack
    \/ EarlyStop
    \/ InjectDiversity
    \/ SkipInjection
    \/ Elitism
    \/ Offspring
    \/ EndGeneration
    \/ Repair
    \/ FinalLocalSearch
    \/ Return

Spec == Init /\ [][Next]_vars

(***************************************************************************)
(* generate_timetable_with_retry: every attempt is one whole solve.        *)
(***************************************************************************)
MaxAttempts == 2

\* the thresholds the wrapper is called with: 800 is the default value
Thresholds == {0, 800}

\* the inputs of the retried solves
EmptyInput == Input(<<>>, <<>>, <<>>)
RetryInputs == {TheoryContended, ProjectRoomTaken, SingleLab, EmptyInput}

\* the dictionary of the last resort (scheduler.py:1173-1179)
FailedResult == [type |-> "dict", timetable |-> <<>>, fitness |-> 0, success |-> FALSE]

InitRetry ==
    /\ \E input \in RetryInputs : StartSolve(input)
    /\ pc = "retry"
    /\ attempt = 0
    /\ best_result = NoResult
    /\ best_fitness = -1
    /\ max_attempts \in 1 .. MaxAttempts
    /\ fitness_threshold \in Thresholds
    /\ attempts = <<>>
    /\ returned = NoResult
    /\ NoCandidate

\* scheduler.py:1134-1142: the next attempt calls generate_semester_timetable
StartAttempt ==
    /\ pc = "retry"
    /\ attempt < max_attempts
    /\ attempt' = attempt + 1
    /\ population' = <<>>
    /\ best_ever' = NoChromosome
    /\ best_alias' = 0
    /\ stagnation_counter' = 0
    /\ generation' = 0
    /\ next_pop' = <<>>
    /\ result' = NoResult
    /\ pc' = "populate"
    /\ UNCHANGED <<inp, best_result, best_fitness, max_attempts, fitness_threshold,
                   attempts, returned, candidate>>

\* scheduler.py:1144-1165: the result of the attempt is examined
FinishAttempt ==
    /\ pc = "done"
    /\ attempt >= 1
    /\ LET current_fitness == IF result.type = "dict" THEN result.fitness ELSE 0
           current_timetable == IF result.type = "dict" THEN result.timetable
                                ELSE result.items
           better == Len(current_timetable) > 0 /\ current_fitness > best_fitness
       IN  /\ best_fitness' = IF better THEN current_fitness ELSE best_fitness
           /\ best_result' = IF better THEN result ELSE best_result
           /\ IF current_fitness >= fitness_threshold
              THEN /\ returned' = result
                   /\ pc' = "returned"
              ELSE /\ returned' = returned
                   /\ pc' = "retry"
    /\ attempts' = Append(attempts, [fitness |-> best_ever.fitness, result |-> result])
    /\ UNCHANGED <<solve_vars, attempt, max_attempts, fitness_threshold, candidate>>

\* scheduler.py:1167-1179: the attempts are used up
ExhaustedAttempts ==
    /\ pc = "retry"
    /\ attempt >= max_attempts
    /\ returned' = IF best_result # NoResult THEN best_result ELSE FailedResult
    /\ pc' = "returned"
    /\ UNCHANGED <<solve_vars, attempt, best_result, best_fitness, max_attempts,
                   fitness_threshold, attempts, candidate>>

NextRetry ==
    \/ Next
    \/ StartAttempt
    \/ FinishAttempt
    \/ ExhaustedAttempts

SpecRetry == InitRetry /\ [][NextRetry]_vars

(***************************************************************************)
(* calculate_fitness on its own: any list of genes, as crossover may leave *)
(* it, is evaluated once.                                                  *)
(***************************************************************************)
MaxGenes == 3

\* the (day, period) pairs of the genes drawn: two morning periods, an afternoon one
GeneSlots == {<<0, 0>>, <<0, 1>>, <<0, 4>>}

\* a theory hour of section 6_A and one of section 6_B with the same faculty,
\* a lab of each of two batches of 6_A in two lab rooms, and a lab of section
\* 6_B in the first lab room
GenePool ==
    UNION {{TimeSlot(k[1], k[2], "A", "PCC", "F1", "6_A", "R1", 0, TRUE),
            TimeSlot(k[1], k[2], "B", "PCC", "F1", "6_B", "R2", 0, TRUE),
            TimeSlot(k[1], k[2], "L1", "PCCL", "F3", "6_A", "LAB1", 1, FALSE),
            TimeSlot(k[1], k[2], "L2", "PCCL", "F4", "6_A", "LAB2", 2, FALSE),
            TimeSlot(k[1], k[2], "L3", "PCCL", "F5", "6_B", "LAB1", 1, FALSE)} :
           k \in GeneSlots}

GeneLists == UNION {[1 .. n -> GenePool] : n \in 0 .. MaxGenes}

InitFit ==
    /\ StartSolve(EmptyInput)
    /\ NoRetry
    /\ pc = "fitness"
    /\ \E list \in GeneLists :
          candidate = [NewChromosome(EmptyInput) EXCEPT
                          !.genes = list,
                          !.constraint_checker = rebuild_from_genes(list)]

\* scheduler.py:514-540: chromosome.calculate_fitness()
Evaluate ==
    /\ pc = "fitness"
    /\ candidate' = [candidate EXCEPT !.fitness = calculate_fitness(candidate.genes)]
    /\ pc' = "evaluated"
    /\ UNCHANGED <<solve_vars, retry_vars>>

NextFit ==
    \/ Evaluate

SpecFit == InitFit /\ [][NextFit]_vars

(***************************************************************************)
(* Properties of the returned timetable.                                   *)
(***************************************************************************)
\* C1: in every timetable returned by generate_semester_timetable no two
\* assignments share the same (day, period, faculty_id)
C1_NoFacultyDoubleBooking ==
    pc = "done" =>
        \A i, j \in DOMAIN result.items :
            i # j =>
                <<result.items[i].day, result.items[i].period, result.items[i].faculty_id>>
                # <<result.items[j].day, result.items[j].period, result.items[j].faculty_id>>

\* C2: no assignment of the returned timetable shares (day, period, faculty_id)
\* or (day, period, room_id) with a master_schedule entry, project blocks included
C2_NoMasterCollision ==
    pc = "done" =>
        \A i \in DOMAIN result.items : \A j \in DOMAIN inp.master_schedule :
            LET gene == result.items[i]
                slot == inp.master_schedule[j]
            IN  (gene.day = slot.day /\ gene.period = slot.period) =>
                    /\ gene.faculty_id # slot.faculty_id
                    /\ gene.room_id # slot.room_id

\* the number of theory genes of the subject in its section
TheoryCount(genes, subject) ==
    Cardinality({i \in DOMAIN genes :
        /\ genes[i].is_theory
        /\ genes[i].subject_code = subject.subject_code
        /\ genes[i].section_id = SectionId(subject)})

\* the initializer places every theory hour of the subject, whatever the shuffle
InitializerPlacesAll(subject) ==
    \A c \in FreshChromosomes(inp) : TheoryCount(c.genes, subject) = subject.theory_hours

\* C3: in the returned timetable every subject with a theory faculty whose hours
\* the initializer places has exactly theory_hours theory assignments: crossover
\* and mutation do not change the count in the best candidate
C3_TheoryHoursKept ==
    pc = "done" =>
        \A k \in DOMAIN inp.subjects :
            LET subject == ValidatedSubjects(inp)[k]
            IN  (subject.theory_faculty # "" /\ InitializerPlacesAll(subject)) =>
                    TheoryCount(result.items, subject) = subject.theory_hours

\* the subjects _schedule_parallel_labs_csp groups under the section of subject
LabSubjectsOfSection(subject) ==
    {k \in DOMAIN inp.subjects :
        LET other == ValidatedSubjects(inp)[k]
        IN  /\ other.lab_hours > 0
            /\ ~is_project(other.subject_type)
            /\ other.lab_faculty # ""
            /\ SectionId(other) = SectionId(subject)}

\* no master_schedule entry uses the faculty, the section or the room at (day, period)
FreeOfMaster(day, period, faculty_id, section_id, room_id) ==
    \A j \in DOMAIN inp.master_schedule :
        LET slot == inp.master_schedule[j]
        IN  (slot.day = day /\ slot.period = period) =>
                /\ slot.faculty_id # faculty_id
                /\ slot.section_id # section_id
                /\ slot.room_id # room_id

\* some lab window has the faculty, the section and a lab room free for two
\* consecutive periods before anything of the section is placed
LabWindowFree(subject) ==
    \E w \in Range(LabWindows) : \E r \in DOMAIN inp.lab_rooms :
        \A p \in {w[2], w[2] + 1} :
            FreeOfMaster(w[1], p, subject.lab_faculty, SectionId(subject), inp.lab_rooms[r])

\* C4: a non-project subject with lab hours and a lab faculty that is the only
\* lab-carrying subject of its section is placed by initialize_with_csp
\* whenever some lab window is free for it
C4_SingleLabPlaced ==
    pc = "populate" =>
        \A n \in DOMAIN population : \A k \in DOMAIN inp.subjects :
            LET subject == ValidatedSubjects(inp)[k]
            IN  (/\ LabSubjectsOfSection(subject) = {k}
                 /\ LabWindowFree(subject)) =>
                    \E i \in DOMAIN population[n].genes :
                        /\ ~population[n].genes[i].is_theory
                        /\ population[n].genes[i].subject_code = subject.subject_code

(***************************************************************************)
(* Properties of the fitness evaluator.                                    *)
(***************************************************************************)
\* every (day, period, section_id) shared by several genes holds only lab genes
\* of pairwise distinct batches
BatchParallelOnly(genes) ==
    \A i, j \in DOMAIN genes :
        (/\ i # j
         /\ genes[i].day = genes[j].day
         /\ genes[i].period = genes[j].period
         /\ genes[i].section_id = genes[j].section_id) =>
            /\ ~genes[i].is_theory
            /\ ~genes[j].is_theory
            /\ genes[i].batch_number # genes[j].batch_number

\* C5: the evaluator honours the batch-parallel exception: a candidate whose
\* shared section slots hold only parallel batches has no section double-booking
C5_BatchParallelException ==
    \A n \in DOMAIN population :
        BatchParallelOnly(population[n].genes) =>
            _count_conflicts_fast(population[n].genes, "section") = 0

\* lab genes beyond the first on one (room_id, day, period)
LabRoomExcess(genes) ==
    LET labs == {i \in DOMAIN genes : ~genes[i].is_theory}
        key(i) == <<genes[i].room_id, genes[i].day, genes[i].period>>
        keys == {key(i) : i \in labs}
    IN  SumOver([k \in keys |-> Cardinality({i \in labs : key(i) = k}) - 1], keys)

\* C6: k >= 2 lab genes in one lab room at one (day, period) cost 400 x (k - 1)
\* and make the hard-constraint count positive
C6_LabRoomDoubleBooking ==
    (pc = "evaluated" /\ LabRoomExcess(candidate.genes) > 0) =>
        /\ _count_conflicts_fast(candidate.genes, "room") * 400
              >= LabRoomExcess(candidate.genes) * 400
        /\ hard_constraint_score(candidate.genes) > 0

\* every violation count but the afternoon one
OtherCounts(genes) ==
    <<_count_conflicts_fast(genes, "faculty"), _count_conflicts_fast(genes, "section"),
      _count_conflicts_fast(genes, "room"), _check_lab_continuity(genes),
      _check_project_continuity(genes), _check_gaps(genes),
      _check_theory_distribution(genes), _penalize_sparse_days(genes)>>

\* the list with gene i at (day, period)
MovedTo(genes, i, day, period) ==
    [genes EXCEPT ![i] = [@ EXCEPT !.day = day, !.period = period]]

\* the lists that differ from genes only in that one morning theory gene sits in
\* an afternoon period, with every other violation count equal
AfternoonVariants(genes) ==
    {MovedTo(genes, i, m[1], m[2]) :
        <<i, m>> \in {q \in (DOMAIN genes) \X ((0 .. Days - 1) \X Range(afternoon_periods)) :
            /\ genes[q[1]].is_theory
            /\ genes[q[1]].period \in Range(morning_periods)
            /\ OtherCounts(MovedTo(genes, q[1], q[2][1], q[2][2])) = OtherCounts(genes)}}

\* what calculate_fitness subtracts for theory in the afternoon
AfternoonCharge(genes) == _penalize_theory_afternoon(genes) * 100

\* C7 as stated: one theory gene in an afternoon period instead of a morning
\* one, all other counts equal, changes the afternoon charge by exactly 100
C7_AfternoonCharge100 ==
    pc = "evaluated" =>
        \A moved \in AfternoonVariants(candidate.genes) :
            AfternoonCharge(moved) - AfternoonCharge(candidate.genes) = 100

\* C7, amended: the charge is 300, the count being tripled before the weight
\* of 100 is applied; the fitness drops by 300 where neither value is clamped
C7_AfternoonCharge300 ==
    pc = "evaluated" =>
        \A moved \in AfternoonVariants(candidate.genes) :
            /\ AfternoonCharge(moved) - AfternoonCharge(candidate.genes) = 300
            /\ Penalty(moved) - Penalty(candidate.genes) = 300
            /\ Penalty(moved) <= 1000 =>
                  candidate.fitness - calculate_fitness(moved) = 300

C7_Witness ==
    /\ pc = "evaluated"
    /\ \E moved \in AfternoonVariants(candidate.genes) :
          /\ Len(candidate.genes) >= 2
          /\ calculate_fitness(moved) > 0

\* C8: for every list of genes, duplicates and crowded section slots included,
\* 0 <= fitness <= 1000: a negative gap term never lifts the fitness above 1000
C8_FitnessRange ==
    pc = "evaluated" =>
        /\ candidate.fitness >= 0
        /\ candidate.fitness <= 1000
        /\ Penalty(candidate.genes) >= 0

C8_Witness ==
    /\ pc = "evaluated"
    /\ _check_gaps(candidate.genes) < 0
    /\ candidate.fitness > 0
    /\ \E i, j \in DOMAIN candidate.genes :
          /\ i # j
          /\ candidate.genes[i].section_id = candidate.genes[j].section_id
          /\ candidate.genes[i].day = candidate.genes[j].day
          /\ candidate.genes[i].period = candidate.genes[j].period

(***************************************************************************)
(* Properties of generate_timetable_with_retry.                            *)
(***************************************************************************)
\* C9: when no attempt reaches fitness_threshold the wrapper returns the result
\* of an attempt whose candidate had the highest fitness of all attempts
C9_ReturnsBestAttempt ==
    (/\ pc = "returned"
     /\ Len(attempts) = max_attempts
     /\ \A k \in DOMAIN attempts : attempts[k].fitness < fitness_threshold) =>
        \E k \in DOMAIN attempts :
            /\ \A other \in DOMAIN attempts : attempts[other].fitness <= attempts[k].fitness
            /\ returned = attempts[k].result

\* C10: at most max_attempts solves, and attempt k+1 starts only if the
\* candidates of attempts 1..k all had a fitness below fitness_threshold
C10_RetryOnlyBelowThreshold ==
    /\ attempt <= max_attempts
    /\ Len(attempts) <= attempt
    /\ \A k \in DOMAIN attempts :
          k < attempt => attempts[k].fitness < fitness_threshold

\* the timetable, fitness and success flag a Python value carries, if any
Timetable(value) ==
    IF value.type = "dict" THEN value.timetable
    ELSE IF value.type = "list" THEN value.items ELSE <<>>

\* C11: for an empty subject list the solve ends with an empty timetable of
\* fitness 1000, and the wrapper returns a result with an empty timetable,
\* fitness = 1000 and success = true
C11_EmptyInputSucceeds ==
    /\ (pc = "done" /\ inp = EmptyInput) =>
          /\ Timetable(result) = <<>>
          /\ best_ever.fitness = 1000
    /\ (pc = "returned" /\ inp = EmptyInput) =>
          /\ returned.type = "dict"
          /\ returned.timetable = <<>>
          /\ returned.fitness = 1000
          /\ returned.success

\* the days the genes of a candidate use
DaysUsed(genes) == {genes[i].day : i \in DOMAIN genes}

\* C12: Scenario A (one section, one PCC subject of three theory hours, no lab
\* rooms, empty master schedule): the returned candidate uses at least two
\* different days and its final fitness is at least 900
C12_ScenarioA ==
    (pc = "done" /\ inp = SingleSectionSanity) =>
        /\ Cardinality(DaysUsed(best_ever.genes)) >= 2
        /\ best_ever.fitness >= 900

(***************************************************************************)
(* The initializer on its own: one chromosome is constructed, filled by    *)
(* initialize_with_csp and evaluated.                                      *)
(***************************************************************************)
LabRooms == <<"LAB1", "LAB2", "LAB3">>

InitSubjects ==
    {<<Subject("L1", "PCCL", 0, 2, "", "F1", "A"), Subject("L2", "PCCL", 0, 2, "", "F2", "A")>>,
     <<Subject("L1", "PCCL", 0, 2, "", "F1", "A"), Subject("L2", "PCCL", 0, 2, "", "F2", "A"),
       Subject("L3", "PCCL", 0, 2, "", "F3", "A")>>,
     ProjectEnforcement.subjects,
     <<Subject("PR", "MP", 0, 3, "", "F3", "A"), Subject("PQ", "MP", 0, 3, "", "F1", "A")>>,
     <<Subject("PR", "MP", 0, 3, "", "F3", "A"), Subject("L1", "PCCL", 0, 2, "", "F1", "A"),
       Subject("L2", "PCCL", 0, 2, "", "F2", "A")>>,
     <<Subject("X", "PCC", 3, 0, "F1", "", "A")>>,
     <<Subject("X", "PCC", 2, 0, "F1", "", "A"), Subject("Y", "PCC", 1, 0, "F2", "", "A")>>,
     <<Subject("I", "IPCC", 2, 2, "F1", "F1", "A"), Subject("L2", "PCCL", 0, 2, "", "F2", "A")>>,
     TheoryFree.subjects}

\* what other semesters have committed: nothing, or every morning of F1, and
\* on top of that at most one further entry
MasterExtras ==
    {<<>>} \cup
    {<<MasterEntry(k[1], k[2], faculty, "4_Z", room, theory)>> :
        k \in Slots, faculty \in {"F1", "F3", "F9"}, room \in {"R1", "LAB1", "R9"},
        theory \in BOOLEAN}

InitMasters == {base \o extra : base \in {<<>>, MorningsTaken("F1")}, extra \in MasterExtras}

InitInputs == {Input(subjects, LabRooms, master) : subjects \in InitSubjects, master \in InitMasters}

InitConstruct ==
    /\ \E input \in InitInputs : StartSolve(input)
    /\ NoRetry
    /\ NoCandidate
    /\ pc = "construct"

\* scheduler.py:891-895: OptimizedTimetableChromosome(...), initialize_with_csp(),
\* calculate_fitness()
Construct ==
    /\ pc = "construct"
    /\ candidate' \in FreshChromosomes(inp)
    /\ pc' = "constructed"
    /\ UNCHANGED <<solve_vars, retry_vars>>

NextConstruct ==
    \/ Construct

SpecInit == InitConstruct /\ [][NextConstruct]_vars

(***************************************************************************)
(* Properties of the initializer.                                          *)
(***************************************************************************)
\* the codes of the lab subjects _schedule_parallel_labs_csp groups under a section
LabCodes(section_id) ==
    {ValidatedSubjects(inp)[k].subject_code : k \in
        {n \in DOMAIN inp.subjects :
            LET sub == ValidatedSubjects(inp)[n]
            IN  /\ sub.lab_hours > 0
                /\ ~is_project(sub.subject_type)
                /\ sub.lab_faculty # ""
                /\ SectionId(sub) = section_id}}

\* positions of the lab genes of a section
LabGenes(genes, section_id) ==
    {i \in DOMAIN genes :
        /\ ~genes[i].is_theory
        /\ ~is_project(genes[i].subject_type)
        /\ genes[i].section_id = section_id}

\* all N rotation sessions of the section were placed: 2 hours of N batches each
AllSessionsPlaced(genes, section_id) ==
    LET N == Cardinality(LabCodes(section_id))
    IN  N >= 2 /\ Cardinality(LabGenes(genes, section_id)) = 2 * N * N

\* the rotation sessions of a section: the (day, start) pairs holding lab genes
SessionStarts(genes, section_id) ==
    {<<genes[i].day, genes[i].period>> : i \in
        {n \in LabGenes(genes, section_id) : genes[n].period \in Range(lab_starts)}}

\* the lab genes of a batch in the session starting at w, hour by hour
BatchHour(genes, section_id, w, b, hour) ==
    {i \in LabGenes(genes, section_id) :
        /\ genes[i].day = w[1]
        /\ genes[i].period = w[2] + hour
        /\ genes[i].batch_number = b}

RotationComplete(genes, section_id) ==
    LET N == Cardinality(LabCodes(section_id))
        starts == SessionStarts(genes, section_id)
        only(S) == CHOOSE i \in S : TRUE
        at(w, b) == genes[only(BatchHour(genes, section_id, w, b, 0))]
    IN  /\ Cardinality(starts) = N
        \* every batch of every session: one gene per hour, same subject and room
        /\ \A w \in starts : \A b \in 1 .. N :
              /\ Cardinality(BatchHour(genes, section_id, w, b, 0)) = 1
              /\ Cardinality(BatchHour(genes, section_id, w, b, 1)) = 1
              /\ LET second == genes[only(BatchHour(genes, section_id, w, b, 1))]
                 IN  /\ second.subject_code = at(w, b).subject_code
                     /\ second.room_id = at(w, b).room_id
              /\ at(w, b).subject_code \in LabCodes(section_id)
              /\ at(w, b).room_id \in Range(inp.lab_rooms)
        \* within a session the batches differ in subject and in lab room
        /\ \A w \in starts : \A b1, b2 \in 1 .. N :
              b1 # b2 => /\ at(w, b1).subject_code # at(w, b2).subject_code
                         /\ at(w, b1).room_id # at(w, b2).room_id
        \* every batch meets every lab subject in exactly one session
        /\ \A b \in 1 .. N : \A code \in LabCodes(section_id) :
              Cardinality({w \in starts : at(w, b).subject_code = code}) = 1

\* C13: when _schedule_parallel_labs_csp places all N >= 2 rotation sessions of
\* a section, every batch 1..N gets every lab subject in exactly one session,
\* the N batches of a session have pairwise distinct subjects and lab rooms,
\* and each occupies two consecutive periods of one day starting at 0, 2 or 4
C13_LabRotation ==
    pc = "constructed" =>
        \A section_id \in DOMAIN Sections :
            AllSessionsPlaced(candidate.genes, section_id) =>
                RotationComplete(candidate.genes, section_id)

C13_Witness ==
    /\ pc = "constructed"
    /\ Cardinality(LabCodes("6_A")) = 3
    /\ AllSessionsPlaced(candidate.genes, "6_A")
    /\ inp.master_schedule # <<>>

\* positions of the genes of a project subject
ProjectGenes(genes, subject) ==
    {i \in DOMAIN genes :
        /\ genes[i].subject_code = subject.subject_code
        /\ genes[i].section_id = SectionId(subject)}

ProjectDaysUsed(genes, subject) == {genes[i].day : i \in ProjectGenes(genes, subject)}

\* the genes of the subject form whole blocks: per used day one non-theory gene
\* at each of the periods 4, 5 and 6 and nothing else
WholeBlocks(genes, subject) ==
    LET P == ProjectGenes(genes, subject)
    IN  /\ \A i \in P : ~genes[i].is_theory /\ genes[i].period \in {4, 5, 6}
        /\ \A day \in ProjectDaysUsed(genes, subject) : \A p \in {4, 5, 6} :
              Cardinality({i \in P : genes[i].day = day /\ genes[i].period = p}) = 1

MPSubjects ==
    {k \in DOMAIN inp.subjects :
        /\ ValidatedSubjects(inp)[k].subject_type = "MP"
        /\ ValidatedSubjects(inp)[k].lab_faculty # ""}

ScenarioC ==
    /\ inp.subjects = ProjectEnforcement.subjects
    /\ inp.master_schedule = <<>>

\* C14: for every MP subject with a lab faculty initialize_with_csp emits at
\* most lab_hours div 3 blocks, each block being three non-theory assignments
\* of one day at the periods 4, 5, 6; two blocks of one section never share a
\* day; in Scenario C (one project of lab_hours = 6, empty master schedule)
\* there are exactly two blocks and the fitness is at least 950
C14_ProjectBlocks ==
    pc = "constructed" =>
        /\ \A k \in MPSubjects :
              LET subject == ValidatedSubjects(inp)[k]
              IN  /\ WholeBlocks(candidate.genes, subject)
                  /\ Cardinality(ProjectDaysUsed(candidate.genes, subject))
                        <= subject.lab_hours \div 3
        /\ \A k, n \in MPSubjects :
              LET one == ValidatedSubjects(inp)[k]
                  other == ValidatedSubjects(inp)[n]
              IN  (k # n /\ SectionId(one) = SectionId(other)) =>
                      ProjectDaysUsed(candidate.genes, one)
                          \cap ProjectDaysUsed(candidate.genes, other) = {}
        /\ ScenarioC =>
              /\ Cardinality(ProjectDaysUsed(candidate.genes, ValidatedSubjects(inp)[1])) = 2
              /\ Len(candidate.genes) = 6
              /\ candidate.fitness >= 950

\* two projects of one section, the second pushed past the first and past a
\* day the master schedule blocks
C14_Witness ==
    /\ pc = "constructed"
    /\ Cardinality(MPSubjects) = 2
    /\ inp.master_schedule # <<>>
    /\ \A k \in MPSubjects :
          ProjectDaysUsed(candidate.genes, ValidatedSubjects(inp)[k]) # {}
    /\ \E k \in MPSubjects :
          ProjectDaysUsed(candidate.genes, ValidatedSubjects(inp)[k]) = {2}

\* the index at the moment gene i was placed: the master schedule and the genes
\* appended before it
IndexBefore(genes, i) ==
    AddAll(MasterChecker(inp.master_schedule), SubSeq(genes, 1, i - 1), 1)

\* some morning slot was free for the gene's faculty, section and room
MorningWasFree(genes, i) ==
    \E k \in DOMAIN SlotList(morning_periods) :
        is_available(IndexBefore(genes, i), SlotList(morning_periods)[k][1],
                     SlotList(morning_periods)[k][2], genes[i].faculty_id,
                     genes[i].section_id, genes[i].room_id, TRUE)

\* the master schedule occupies the faculty in every morning period of every day
MorningsOccupied(faculty_id) ==
    \A k \in DOMAIN SlotList(morning_periods) :
        \E j \in DOMAIN inp.master_schedule :
            /\ inp.master_schedule[j].day = SlotList(morning_periods)[k][1]
            /\ inp.master_schedule[j].period = SlotList(morning_periods)[k][2]
            /\ inp.master_schedule[j].faculty_id = faculty_id

AfternoonTheory(genes) ==
    {i \in DOMAIN genes : genes[i].is_theory /\ genes[i].period \in Range(afternoon_periods)}

\* C15: the initializer places a theory hour in an afternoon period only if no
\* (day, morning period) was available for its faculty, section and classroom
\* when it was placed; if the master schedule occupies the faculty on every
\* morning of every day, every assignment of that faculty's subject is in the
\* afternoon
C15_AfternoonLastResort ==
    pc = "constructed" =>
        /\ \A i \in AfternoonTheory(candidate.genes) : ~MorningWasFree(candidate.genes, i)
        /\ \A k \in DOMAIN inp.subjects :
              LET subject == ValidatedSubjects(inp)[k]
              IN  (subject.theory_faculty # "" /\ MorningsOccupied(subject.theory_faculty)) =>
                      \A i \in DOMAIN candidate.genes :
                          (/\ candidate.genes[i].subject_code = subject.subject_code
                           /\ candidate.genes[i].faculty_id = subject.theory_faculty) =>
                              candidate.genes[i].period \in Range(afternoon_periods)

\* one subject forced into the afternoon next to one placed in the morning
C15_Witness ==
    /\ pc = "constructed"
    /\ MorningsOccupied("F1")
    /\ AfternoonTheory(candidate.genes) # {}
    /\ \E i \in DOMAIN candidate.genes :
          /\ candidate.genes[i].is_theory
          /\ candidate.genes[i].period \in Range(morning_periods)

(***************************************************************************)
(* The repair on its own: best_ever holds a candidate whose project blocks *)
(* and lab sessions may have lost their continuity, and the repair step of *)
(* the solve is applied to it.  candidate keeps the list before the repair.*)
(***************************************************************************)
\* what one day holds of the project PR of section 6_A: nothing, the whole
\* block, or the block without its middle hour
ProjectShapes == {<<>>, <<4, 5, 6>>, <<4, 6>>}

\* what one day holds of batch 1 of the lab L3 of section 6_B, taught by the
\* project's faculty: nothing, a continuous session, or a session torn apart
LabShapes == {<<>>, <<0, 1>>, <<0, 3>>}

DayGenes(day, project, lab) ==
    [k \in DOMAIN project |->
        TimeSlot(day, project[k], "PR", "MP", "F3", "6_A", "R1", 0, FALSE)]
    \o [k \in DOMAIN lab |->
        TimeSlot(day, lab[k], "L3", "PCCL", "F3", "6_B", "LAB1", 1, FALSE)]

RECURSIVE WeekGenes(_, _, _)
WeekGenes(projects, labs, day) ==
    IF day >= Days THEN <<>>
    ELSE DayGenes(day, projects[day], labs[day]) \o WeekGenes(projects, labs, day + 1)

RepairLists ==
    {WeekGenes(projects, labs, 0) :
        projects \in [0 .. Days - 1 -> ProjectShapes], labs \in [0 .. Days - 1 -> LabShapes]}

\* another semester uses classroom R1 on the given day at periods 0, 2 and 5
RoomTaken(day) ==
    <<MasterEntry(day, 0, "F9", "4_Z", "R1", TRUE), MasterEntry(day, 2, "F9", "4_Z", "R1", TRUE),
      MasterEntry(day, 5, "F9", "4_Z", "R1", TRUE)>>

RECURSIVE RoomsTaken(_, _)
RoomsTaken(days, day) ==
    IF day >= Days THEN <<>>
    ELSE (IF day \in days THEN RoomTaken(day) ELSE <<>>) \o RoomsTaken(days, day + 1)

RepairMasters ==
    {RoomsTaken(days, 0) \o mornings :
        days \in SUBSET (0 .. Days - 1), mornings \in {<<>>, MorningsTaken("F3")}}

InitRepair ==
    /\ \E master \in RepairMasters : StartSolve(Input(<<>>, <<>>, master))
    /\ NoRetry
    /\ pc = "broken"
    /\ \E list \in RepairLists :
          candidate = [genes |-> list, fitness |-> calculate_fitness(list),
                       constraint_checker |-> rebuild_from_genes(list),
                       lab_usage_tracker |-> MasterLabUsage(inp.master_schedule)]

\* the candidate is the best one when the generations end
EndOfGenerations ==
    /\ pc = "broken"
    /\ best_ever' = candidate
    /\ pc' = "repair"
    /\ UNCHANGED <<inp, population, best_alias, stagnation_counter, generation,
                   next_pop, result>>
    /\ UNCHANGED <<retry_vars, candidate>>

NextRepair ==
    \/ EndOfGenerations
    \/ Repair

SpecRepair == InitRepair /\ [][NextRepair]_vars

(***************************************************************************)
(* Properties of the repair.                                               *)
(***************************************************************************)
\* the groups of exactly two non-theory genes at non-adjacent periods
BrokenPairs(genes) ==
    LET labs == {i \in DOMAIN genes : ~genes[i].is_theory}
        group(i) == {k \in labs : SessionKey(genes[k]) = SessionKey(genes[i])}
    IN  {group(i) : i \in {k \in labs :
            /\ Cardinality(group(k)) = 2
            /\ \A a, b \in group(k) : a # b => Abs(genes[a].period - genes[b].period) > 1}}

\* some day has a start period whose two periods are free for the pair's
\* faculty, section and room, the pair itself ignored
SomeWindowFree(genes, pair) ==
    LET gene == genes[SetMin(pair)]
    IN  \E k \in DOMAIN LabWindows :
            _is_continuous_slot_available(genes, inp.master_schedule, LabWindows[k][1],
                LabWindows[k][2], gene.faculty_id, gene.section_id, gene.room_id, pair)

\* the two genes sit on one day at s, s + 1 with s in {0, 2, 4}
Continuous(genes, pair) ==
    LET a == genes[SetMin(pair)]
        b == genes[SetMax(pair)]
    IN  /\ a.day = b.day
        /\ \E s \in Range(lab_starts) : {a.period, b.period} = {s, s + 1}

\* the continuity check finds no break in the group the gene belongs to
GroupUnbroken(genes, i) ==
    ~HasBreak(genes, {k \in DOMAIN genes :
                        ~genes[k].is_theory /\ SessionKey(genes[k]) = SessionKey(genes[i])})

\* C16: Scenario E: a (subject, section, batch, day) group of exactly two
\* non-theory assignments at non-adjacent periods for which some day has a
\* start period s in {0, 2, 4} with s, s + 1 free for its faculty, section and
\* room is, after repair_lab_continuity_post_generation, on one day at periods
\* s', s' + 1, and the lab-continuity check counts no violation for its group
C16_RepairRestoresContinuity ==
    pc = "final" =>
        \A pair \in BrokenPairs(candidate.genes) :
            SomeWindowFree(candidate.genes, pair) =>
                /\ Continuous(best_ever.genes, pair)
                /\ GroupUnbroken(best_ever.genes, SetMin(pair))

(***************************************************************************)
(* CSPConstraintChecker on its own: a fresh index is rebuilt from a list   *)
(* of genes, then one gene is added and one is removed.                    *)
(***************************************************************************)
MaxIndexGenes == 2

IndexSlots == {<<0, 0>>, <<0, 4>>}

\* two theory genes of one faculty, a lab batch, a project hour, and the
\* synthetic gene of a master schedule entry that names no faculty
IndexPool ==
    UNION {{TimeSlot(k[1], k[2], "A", "PCC", "F1", "6_A", "R1", 0, TRUE),
            TimeSlot(k[1], k[2], "B", "PCC", "F1", "6_B", "R2", 0, TRUE),
            TimeSlot(k[1], k[2], "L1", "PCCL", "F3", "6_A", "LAB1", 1, FALSE),
            TimeSlot(k[1], k[2], "PR", "MP", "F3", "6_B", "R1", 0, FALSE),
            FakeGene(MasterEntry(k[1], k[2], "", "4_Z", "LAB1", TRUE))} :
           k \in IndexSlots}

IndexLists == UNION {[1 .. n -> IndexPool] : n \in 0 .. MaxIndexGenes}

\* the chromosome holds its list of genes and an index just constructed
InitIndex ==
    /\ StartSolve(EmptyInput)
    /\ NoRetry
    /\ pc = "fresh"
    /\ \E list \in IndexLists :
          candidate = [NewChromosome(EmptyInput) EXCEPT !.genes = list]

\* scheduler.py:174-178: constraint_checker.rebuild_from_genes(genes)
RebuildFromGenes ==
    /\ pc = "fresh"
    /\ candidate' = [candidate EXCEPT
                        !.constraint_checker = rebuild_from_genes(candidate.genes)]
    /\ pc' = "built"
    /\ UNCHANGED <<solve_vars, retry_vars>>

\* scheduler.py:130-136: constraint_checker.add_slot(gene)
AddSlot ==
    /\ pc = "built"
    /\ \E gene \in IndexPool :
          candidate' = [candidate EXCEPT !.constraint_checker = add_slot(@, gene)]
    /\ pc' = "added"
    /\ UNCHANGED <<solve_vars, retry_vars>>

\* scheduler.py:138-144: constraint_checker.remove_slot(gene)
RemoveSlot ==
    /\ pc = "added"
    /\ \E gene \in IndexPool :
          candidate' = [candidate EXCEPT !.constraint_checker = remove_slot(@, gene)]
    /\ pc' = "removed"
    /\ UNCHANGED <<solve_vars, retry_vars>>

NextIndex ==
    \/ RebuildFromGenes
    \/ AddSlot
    \/ RemoveSlot

SpecIndex == InitIndex /\ [][NextIndex]_vars

(***************************************************************************)
(* Properties of the constraint index.                                     *)
(***************************************************************************)
\* the index of the chromosome answers "not available" for the faculty and for
\* the section of every master schedule entry at the entry's (day, period)
HoldsMaster(chromosome) ==
    \A j \in DOMAIN inp.master_schedule :
        LET slot == inp.master_schedule[j]
        IN  /\ ~is_available(chromosome.constraint_checker, slot.day, slot.period,
                             slot.faculty_id, "", "", TRUE)
            /\ ~is_available(chromosome.constraint_checker, slot.day, slot.period,
                             "", slot.section_id, "", TRUE)

\* C17: at every point of a candidate's life after construction, also after
\* rebuild_from_genes follows a crossover, a mutation, a tabu trial or a
\* repair, its constraint index still contains every master_schedule entry
C17_IndexKeepsMaster ==
    /\ \A n \in DOMAIN population : HoldsMaster(population[n])
    /\ \A n \in DOMAIN next_pop : HoldsMaster(next_pop[n])
    /\ best_ever # NoChromosome => HoldsMaster(best_ever)

\* the ids a query may name, the empty string among them
QueryFaculties == {"", "F1", "F3"}
QuerySections == {"", "6_A", "4_Z"}
QueryRooms == {"", "R1", "LAB1"}

\* the id is non-empty and present in the set
Present(id, ids) == id # "" /\ id \in ids

\* C18: is_available returns false whenever one of the three non-empty ids is
\* present in the corresponding set at (day, period), for both values of
\* is_theory, and true when none of them is; an empty id is never a reason
\* for false
C18_IsAvailableAllIds ==
    pc \in {"built", "added", "removed"} =>
        \A k \in IndexSlots, faculty_id \in QueryFaculties, section_id \in QuerySections,
           room_id \in QueryRooms, is_theory \in BOOLEAN :
            is_available(candidate.constraint_checker, k[1], k[2], faculty_id,
                         section_id, room_id, is_theory)
            = ~(\/ Present(faculty_id, candidate.constraint_checker.faculty_slots[k])
                \/ Present(section_id, candidate.constraint_checker.section_slots[k])
                \/ Present(room_id, candidate.constraint_checker.room_slots[k]))

\* C19: after rebuild_from_genes(L) on a fresh index is_available returns
\* false for the day, period, faculty, section, room and kind of every
\* assignment of L
C19_RebuiltIndexConsistent ==
    pc = "built" =>
        \A i \in DOMAIN candidate.genes :
            LET a == candidate.genes[i]
            IN  ~is_available(candidate.constraint_checker, a.day, a.period, a.faculty_id,
                              a.section_id, a.room_id, a.is_theory)

\* a list with a lab batch and with the master entry that names no faculty
C19_Witness ==
    /\ pc = "built"
    /\ \E i, j \in DOMAIN candidate.genes :
          /\ candidate.genes[i].batch_number = 1
          /\ candidate.genes[j].faculty_id = ""

\* C20: remove_slot is the inverse of add_slot: add_slot(a) followed by
\* remove_slot(a) leaves every set of the index as it was before, also when
\* an assignment already in the index uses the same faculty, section or room
\* at a's (day, period)
C20_RemoveInvertsAdd ==
    [][\A a \in IndexPool :
          (/\ pc = "added"
           /\ candidate.constraint_checker
                = add_slot(rebuild_from_genes(candidate.genes), a)
           /\ pc' = "removed"
           /\ candidate'.constraint_checker = remove_slot(candidate.constraint_checker, a))
          => candidate'.constraint_checker = rebuild_from_genes(candidate.genes)]_vars

(***************************************************************************)
(* VTUSubjectValidator on its own: the constructor of a chromosome         *)
(* validates the subject it is given, and so does the constructor of the   *)
(* next chromosome, on the same Subject object.                            *)
(***************************************************************************)
MaxHours == 4

SubjectTypes == DOMAIN SUBJECT_TYPES \cup {"mp", "pcc", "LAB"}

RawSubjects ==
    {Subject("S", type, theory_hours, lab_hours, "F1", "F2", "A") :
        type \in SubjectTypes, theory_hours \in 0 .. MaxHours, lab_hours \in 0 .. MaxHours}

InitValidate ==
    /\ \E subject \in RawSubjects : StartSolve(Input(<<subject>>, <<>>, <<>>))
    /\ NoRetry
    /\ NoCandidate
    /\ pc = "raw"

\* scheduler.py:209-210 and 86-97: the type is known, the hours are adjusted
\* in the Subject object itself
Validate ==
    /\ pc \in {"raw", "validated"}
    /\ Upper(inp.subjects[1].subject_type) \in DOMAIN SUBJECT_TYPES
    /\ inp' = [inp EXCEPT !.subjects = ValidatedSubjects(inp)]
    /\ pc' = IF pc = "raw" THEN "validated" ELSE "revalidated"
    /\ UNCHANGED <<population, best_ever, best_alias, stagnation_counter, generation,
                   next_pop, result>>
    /\ UNCHANGED <<retry_vars, candidate>>

\* scheduler.py:88-89: raise ValueError for an unknown type
Reject ==
    /\ pc = "raw"
    /\ Upper(inp.subjects[1].subject_type) \notin DOMAIN SUBJECT_TYPES
    /\ pc' = "rejected"
    /\ UNCHANGED <<solve_vars, retry_vars, candidate>>

NextValidate ==
    \/ Validate
    \/ Reject

SpecValidate == InitValidate /\ [][NextValidate]_vars

(***************************************************************************)
(* Properties of the validator.                                            *)
(***************************************************************************)
\* C21: after validate_subject the type invariants hold for every valid type:
\* PCC, PEC, OEC and HSMC have lab_hours = 0, PCCL has theory_hours = 0, INT
\* has both 0, MP has theory_hours = 0 and lab_hours a multiple of three;
\* validation is idempotent and never rejects a subject of a valid type
C21_TypeInvariants ==
    LET subject == inp.subjects[1]
        type == Upper(subject.subject_type)
    IN  /\ pc \in {"validated", "revalidated"} =>
              /\ type \in {"PCC", "PEC", "OEC", "HSMC"} => subject.lab_hours = 0
              /\ type = "PCCL" => subject.theory_hours = 0
              /\ type = "INT" => subject.theory_hours = 0 /\ subject.lab_hours = 0
              /\ type = "MP" => subject.theory_hours = 0 /\ subject.lab_hours % 3 = 0
              /\ validate_subject(subject) = subject
        /\ pc = "rejected" => type \notin DOMAIN SUBJECT_TYPES

(***************************************************************************)
(* The mutation step on its own: a child of the offspring loop is mutated  *)
(* or not, and evaluated.                                                  *)
(***************************************************************************)
InitMutate ==
    /\ StartSolve(EmptyInput)
    /\ NoRetry
    /\ pc = "child"
    /\ \E list \in GeneLists :
          candidate = [NewChromosome(EmptyInput) EXCEPT
                          !.genes = list,
                          !.constraint_checker = rebuild_from_genes(list)]

\* scheduler.py:975-981: random.random() < mutation_rate and two or more genes
MutateChild ==
    /\ pc = "child"
    /\ Len(candidate.genes) >= 2
    /\ \E idx1, idx2 \in DOMAIN candidate.genes :
          /\ idx1 # idx2
          /\ candidate' = [Mutate(candidate, idx1, idx2) EXCEPT
                              !.fitness = calculate_fitness(SwapAt(candidate.genes, idx1, idx2))]
    /\ pc' = "mutated"
    /\ UNCHANGED <<solve_vars, retry_vars>>

\* scheduler.py:975-981: no mutation, the child is only evaluated
KeepChild ==
    /\ pc = "child"
    /\ candidate' = [candidate EXCEPT !.fitness = calculate_fitness(candidate.genes)]
    /\ pc' = "kept"
    /\ UNCHANGED <<solve_vars, retry_vars>>

NextMutate ==
    \/ MutateChild
    \/ KeepChild

SpecMutate == InitMutate /\ [][NextMutate]_vars

(***************************************************************************)
(* Properties of mutation and of the tabu search.                          *)
(***************************************************************************)
\* the list in which the genes at i and j have exchanged day and period only
TimeExchanged(genes, i, j) ==
    [k \in DOMAIN genes |->
        IF k = i THEN [genes[i] EXCEPT !.day = genes[j].day, !.period = genes[j].period]
        ELSE IF k = j THEN [genes[j] EXCEPT !.day = genes[i].day, !.period = genes[i].period]
        ELSE genes[k]]

Triples(genes) ==
    {<<genes[k].subject_code, genes[k].day, genes[k].period>> : k \in DOMAIN genes}

DifferInSubjectAndTime(g1, g2) ==
    /\ g1.subject_code # g2.subject_code
    /\ <<g1.day, g1.period>> # <<g2.day, g2.period>>

\* C22: swap mutation picks two distinct indices i, j and exchanges only the
\* (day, period) of the two assignments: subject, faculty, section, room,
\* batch and is_theory of both stay in place, so the set of (subject, day,
\* period) triples changes whenever the two assignments differ in subject
\* and in time
C22_MutationSwapsTimeOnly ==
    [][(pc = "child" /\ pc' = "mutated") =>
          \E i, j \in DOMAIN candidate.genes :
              /\ i # j
              /\ candidate'.genes = TimeExchanged(candidate.genes, i, j)
              /\ DifferInSubjectAndTime(candidate.genes[i], candidate.genes[j])
                    => Triples(candidate'.genes) # Triples(candidate.genes)]_vars

(***************************************************************************)
(* The tabu search on its own: a candidate is searched as an elite (30     *)
(* iterations) or as the final best one (50 iterations), and evaluated.    *)
(***************************************************************************)
InitTabu ==
    /\ StartSolve(EmptyInput)
    /\ NoRetry
    /\ pc = "unsearched"
    /\ \E list \in GeneLists :
          candidate = [NewChromosome(EmptyInput) EXCEPT
                          !.genes = list,
                          !.fitness = calculate_fitness(list),
                          !.constraint_checker = rebuild_from_genes(list)]

\* scheduler.py:950-952: elite.tabu_local_search(max_iterations=30)
EliteSearch ==
    /\ pc = "unsearched"
    /\ \E c \in tabu_local_search(candidate, 30) :
          candidate' = [c EXCEPT !.fitness = calculate_fitness(c.genes)]
    /\ pc' = "searched"
    /\ UNCHANGED <<solve_vars, retry_vars>>

\* scheduler.py:997-1001: best_ever.tabu_local_search(max_iterations=50)
FinalSearch ==
    /\ pc = "unsearched"
    /\ candidate.fitness < 900
    /\ \E c \in tabu_local_search(candidate, 50) :
          candidate' = [c EXCEPT !.fitness = calculate_fitness(c.genes)]
    /\ pc' = "improved"
    /\ UNCHANGED <<solve_vars, retry_vars>>

NextTabu ==
    \/ EliteSearch
    \/ FinalSearch

SpecTabu == InitTabu /\ [][NextTabu]_vars

\* the pairs of distinct theory assignments whose exchange of (day, period)
\* gives a strictly higher fitness
ImprovingExchanges(chromosome) ==
    {m \in (DOMAIN chromosome.genes) \X (DOMAIN chromosome.genes) :
        /\ m[1] # m[2]
        /\ chromosome.genes[m[1]].is_theory
        /\ chromosome.genes[m[2]].is_theory
        /\ calculate_fitness(TimeExchanged(chromosome.genes, m[1], m[2]))
              > calculate_fitness(chromosome.genes)}

\* C23: a trial of the tabu search evaluates the timetable in which two
\* distinct theory assignments have exchanged their (day, period), and the
\* best strictly improving trial is committed: the fitness after the call is
\* never lower than before, and it is strictly higher in the runs that
\* sample an improving exchange
C23_TabuImproves ==
    (pc = "unsearched" /\ candidate.fitness < 1000) =>
        /\ \A c \in tabu_local_search(candidate, 50) :
              calculate_fitness(c.genes) >= candidate.fitness
        /\ ImprovingExchanges(candidate) # {} =>
              \E c \in tabu_local_search(candidate, 50) :
                  calculate_fitness(c.genes) > candidate.fitness

(***************************************************************************)
(* Properties of the generations loop.                                     *)
(***************************************************************************)
\* the last pass of the generations loop is running
LastGeneration == generation + 1 = generations

\* C24: the candidate handed to repair (best_ever when the loop ends) has a
\* fitness at least that of every candidate evaluated during the solve,
\* the offspring created in the last executed generation included
C24_BestEverDominates ==
    (pc = "offspring" /\ LastGeneration) =>
        /\ \A i \in DOMAIN population : population[i].fitness <= best_ever.fitness
        /\ \A i \in DOMAIN next_pop : next_pop[i].fitness <= best_ever.fitness
        /\ \A pair \in OffspringPairs(population) :
              /\ pair[1].fitness <= best_ever.fitness
              /\ pair[2].fitness <= best_ever.fitness

(***************************************************************************)
(* The solve at the larger scale.                                          *)
(***************************************************************************)
InitElite ==
    /\ \E input \in EliteInputs : StartSolve(input)
    /\ pc = "populate"
    /\ NoRetry
    /\ NoCandidate

SpecElite == InitElite /\ [][Next]_vars

LoopSteps == {"sort", "check", "elite", "offspring"}

MaxFitness(pop) == SetMax({pop[i].fitness : i \in DOMAIN pop})

\* int(population_size * elite_ratio)
EliteRange == 1 .. ((population_size * 15) \div 100)

SameCandidate(c1, c2) == c1.genes = c2.genes /\ c1.fitness = c2.fitness

CrossPool ==
    {TimeSlot(0, 0, "A", "PCC", "F1", "6_A", "R1", 0, TRUE),
     TimeSlot(0, 1, "B", "PCC", "F1", "6_B", "R2", 0, TRUE),
     TimeSlot(0, 4, "L1", "PCCL", "F3", "6_A", "LAB1", 1, FALSE)}

CrossLists == UNION {[1 .. n -> CrossPool] : n \in 0 .. MaxGenes}

\* the TimeSlot objects of a list, numbered from base + 1
Objects(list, base) ==
    [k \in DOMAIN list |-> list[k] @@ [oid |-> base + k]]

\* the copy shares every object with the original
shared_copy(chromosome) == chromosome

\* copy.deepcopy(chromosome): equal values in new objects
deepcopy(chromosome) ==
    [chromosome EXCEPT !.genes = [k \in DOMAIN @ |-> [@[k] EXCEPT !.oid = @ + 100]]]

Parent(list, base) ==
    [NewChromosome(EmptyInput) EXCEPT
        !.genes = Objects(list, base),
        !.fitness = calculate_fitness(list),
        !.constraint_checker = rebuild_from_genes(list)]

InitCross ==
    /\ inp = EmptyInput
    /\ best_ever = NoChromosome
    /\ best_alias = 0
    /\ stagnation_counter = 0
    /\ generation = 0
    /\ next_pop = <<>>
    /\ result = NoResult
    /\ NoRetry
    /\ NoCandidate
    /\ pc = "parents"
    /\ \E l1, l2 \in CrossLists : population = <<Parent(l1, 0), Parent(l2, 10)>>

\* scheduler.py:961-970: crossover of the copies at a cut point
Cross ==
    /\ pc = "parents"
    /\ \E pt \in CutPoints(population[1], population[2]) :
          next_pop' = Crossover(deepcopy(population[1]), deepcopy(population[2]), pt)
    /\ pc' = "crossed"
    /\ UNCHANGED <<inp, population, best_ever, best_alias, stagnation_counter,
                   generation, result>>
    /\ UNCHANGED <<retry_vars, candidate>>

\* scheduler.py:961-972: a parent has fewer than two genes, or no crossover is
\* drawn: the children are the copies
CopyParents ==
    /\ pc = "parents"
    /\ next_pop' = <<deepcopy(population[1]), deepcopy(population[2])>>
    /\ pc' = "copied"
    /\ UNCHANGED <<inp, population, best_ever, best_alias, stagnation_counter,
                   generation, result>>
    /\ UNCHANGED <<retry_vars, candidate>>

NextCross ==
    \/ Cross
    \/ CopyParents

SpecCross == InitCross /\ [][NextCross]_vars

\* the objects of a chromosome, and its assignments as values
ObjectIds(chromosome) == {chromosome.genes[k].oid : k \in DOMAIN chromosome.genes}

Assignment(gene) == [f \in (DOMAIN gene) \ {"oid"} |-> gene[f]]

Assignments(chromosome) == [k \in DOMAIN chromosome.genes |-> Assignment(chromosome.genes[k])]

Occurrences(chromosome, a) ==
    Cardinality({k \in DOMAIN chromosome.genes : Assignment(chromosome.genes[k]) = a})

\* C26: crossover never modifies its parents: their assignment lists, indices
\* and fitness are unchanged and no assignment object is shared between a
\* child and a parent; when both parents have at least two assignments the
\* cut point lies in [1, min(|p1|,|p2|)-1], |c1| = |p2|, |c2| = |p1| and the
\* multiset union of the children's assignments equals that of the parents
C26_CrossoverFrame ==
    [][(pc = "parents" /\ pc' \in {"crossed", "copied"}) =>
          LET p1 == population[1]
              p2 == population[2]
              c1 == next_pop'[1]
              c2 == next_pop'[2]
          IN  /\ population' = population
              /\ (ObjectIds(c1) \cup ObjectIds(c2)) \cap (ObjectIds(p1) \cup ObjectIds(p2)) = {}
              /\ pc' = "crossed" =>
                    /\ Len(p1.genes) >= 2 /\ Len(p2.genes) >= 2
                    /\ \E pt \in 1 .. (SetMin({Len(p1.genes), Len(p2.genes)}) - 1) :
                          /\ Assignments(c1) = SubSeq(Assignments(p1), 1, pt)
                                                 \o SubSeq(Assignments(p2), pt + 1, Len(p2.genes))
                          /\ Assignments(c2) = SubSeq(Assignments(p2), 1, pt)
                                                 \o SubSeq(Assignments(p1), pt + 1, Len(p1.genes))
                    /\ Len(c1.genes) = Len(p2.genes)
                    /\ Len(c2.genes) = Len(p1.genes)
                    /\ \A a \in Range(Assignments(p1)) \cup Range(Assignments(p2))
                                \cup Range(Assignments(c1)) \cup Range(Assignments(c2)) :
                          Occurrences(c1, a) + Occurrences(c2, a)
                              = Occurrences(p1, a) + Occurrences(p2, a)]_vars

\* parents of different lengths have been crossed into children that differ
\* from both
C26_Witness ==
    /\ pc = "crossed"
    /\ Len(population[1].genes) = 3
    /\ Len(population[2].genes) = 2
    /\ Assignments(next_pop[1]) # Assignments(population[1])
    /\ Assignments(next_pop[1]) # Assignments(population[2])

\* the positions of the population_size div 4 last candidates
WeakestQuarter == (population_size - population_size \div 4 + 1) .. population_size

\* C27: diversity injection occurs in a generation exactly when the
\* stagnation counter (the number of consecutive generations without a
\* strict improvement of best_ever since the last improvement or injection)
\* exceeds the threshold; it replaces exactly the population_size div 4
\* lowest-fitness candidates of the sorted population by fresh initializer
\* candidates, leaves all other candidates untouched and resets the counter;
\* the population has population_size candidates at every generation boundary
C27_InjectionOnStagnation ==
    [][/\ (pc = "sort" /\ pc' = "check") =>
              stagnation_counter' = IF best_ever'.fitness > best_ever.fitness
                                    THEN 0 ELSE stagnation_counter + 1
       /\ (pc = "check" /\ pc' = "elite") =>
              IF stagnation_counter > StagnationLimit
              THEN /\ stagnation_counter' = 0
                   /\ \A k \in DOMAIN population \ WeakestQuarter :
                         /\ population'[k] = population[k]
                         /\ \A j \in WeakestQuarter :
                               population[j].fitness <= population[k].fitness
                   /\ \A j \in WeakestQuarter : population'[j] \in FreshChromosomes(inp)
                   /\ Len(population') = population_size
              ELSE /\ stagnation_counter' = stagnation_counter
                   /\ population' = population
       /\ pc \in {"elite", "offspring"} => stagnation_counter' = stagnation_counter
       /\ pc' = "sort" => Len(population') = population_size]_vars

\* an injection has replaced the last candidate of the sorted population by a
\* fresh one and has kept a mutated child in front of it
C27_Witness ==
    /\ pc = "elite"
    /\ generation = 1
    /\ stagnation_counter = 0
    /\ best_ever.fitness < 1000
    /\ WeakestQuarter # {}
    /\ \A j \in WeakestQuarter : population[j] \in FreshChromosomes(inp)
    /\ \E k \in DOMAIN population \ WeakestQuarter :
          population[k] \notin FreshChromosomes(inp)

(***************************************************************************)
(* Properties of the relocation made by the repair.                        *)
(***************************************************************************)
\* the positions of the session of gene i in the list before the repair
SessionOf(i) ==
    {k \in DOMAIN candidate.genes :
        ~candidate.genes[k].is_theory
        /\ SessionKey(candidate.genes[k]) = SessionKey(candidate.genes[i])}

\* the repair has moved a gene of the session of gene i
Relocated(i) ==
    /\ ~candidate.genes[i].is_theory
    /\ \E k \in SessionOf(i) : best_ever.genes[k] # candidate.genes[k]

SharesResource(a, b) ==
    \/ a.faculty_id = b.faculty_id
    \/ a.section_id = b.section_id
    \/ a.room_id = b.room_id

\* C28: whenever the repair relocates a broken pair, at each of the two target
\* (day, period) slots no other assignment of the list has the same faculty,
\* section or room as the pair and no master_schedule entry has; this holds
\* for every pair relocated in one run, also with respect to the pairs
\* relocated earlier in the run, and the number of assignments is unchanged
C28_RelocationIsFree ==
    pc = "final" =>
        /\ Len(best_ever.genes) = Len(candidate.genes)
        /\ \A i \in DOMAIN candidate.genes :
              Relocated(i) =>
                  LET gene == best_ever.genes[i]
                  IN  /\ \A k \in DOMAIN best_ever.genes \ SessionOf(i) :
                            (best_ever.genes[k].day = gene.day
                             /\ best_ever.genes[k].period = gene.period)
                                => ~SharesResource(best_ever.genes[k], gene)
                      /\ \A m \in DOMAIN inp.master_schedule :
                            (inp.master_schedule[m].day = gene.day
                             /\ inp.master_schedule[m].period = gene.period)
                                => ~SharesResource(inp.master_schedule[m], gene)

\* two pairs of the same faculty have been relocated in one run, next to
\* master entries
C28_Witness ==
    /\ pc = "final"
    /\ inp.master_schedule # <<>>
    /\ \E i, j \in DOMAIN candidate.genes :
          /\ Relocated(i)
          /\ Relocated(j)
          /\ SessionOf(i) # SessionOf(j)
          /\ candidate.genes[i].faculty_id = candidate.genes[j].faculty_id

(***************************************************************************)
(* Properties of the theory placement of the initializer.                  *)
(***************************************************************************)
TheoryGenes(genes) == {i \in DOMAIN genes : genes[i].is_theory}

\* the slots scanned when gene i was placed: the mornings or the afternoons
ScannedSlots(genes, i) ==
    IF genes[i].period \in Range(morning_periods)
    THEN SlotList(morning_periods) ELSE SlotList(afternoon_periods)

\* slot k of the scan was available when gene i was placed
WasAvailable(genes, i, k) ==
    is_available(IndexBefore(genes, i), ScannedSlots(genes, i)[k][1],
                 ScannedSlots(genes, i)[k][2], genes[i].faculty_id,
                 genes[i].section_id, genes[i].room_id, TRUE)

\* the score slot k of the scan had when gene i was placed
ScoreThen(genes, i, k) ==
    _calculate_slot_score_csp([genes |-> SubSeq(genes, 1, i - 1)],
                              ScannedSlots(genes, i)[k][1], ScannedSlots(genes, i)[k][2],
                              genes[i].section_id, genes[i].subject_code)

\* the place of gene i in the scan
ChosenSlot(genes, i) ==
    CHOOSE k \in DOMAIN ScannedSlots(genes, i) :
        ScannedSlots(genes, i)[k] = <<genes[i].day, genes[i].period>>

\* C29: in every candidate produced by initialize_with_csp each theory
\* assignment is the only assignment of its section, of its faculty and of
\* its classroom at its (day, period) and shares no faculty, section or room
\* with a master_schedule entry there; each theory hour is placed at the
\* first slot, in scan order, that has the maximum score among the available
\* slots of the scanned period range
C29_TheoryPlacement ==
    pc = "constructed" =>
        \A i \in TheoryGenes(candidate.genes) :
            LET genes == candidate.genes
                chosen == ChosenSlot(genes, i)
            IN  /\ \A k \in DOMAIN genes \ {i} :
                      (genes[k].day = genes[i].day /\ genes[k].period = genes[i].period)
                          => ~SharesResource(genes[k], genes[i])
                /\ \A m \in DOMAIN inp.master_schedule :
                      (inp.master_schedule[m].day = genes[i].day
                       /\ inp.master_schedule[m].period = genes[i].period)
                          => ~SharesResource(inp.master_schedule[m], genes[i])
                /\ WasAvailable(genes, i, chosen)
                /\ \A k \in DOMAIN ScannedSlots(genes, i) :
                      WasAvailable(genes, i, k) =>
                          /\ ScoreThen(genes, i, k) <= ScoreThen(genes, i, chosen)
                          /\ k < chosen => ScoreThen(genes, i, k) < ScoreThen(genes, i, chosen)

\* a theory hour has passed over an earlier available slot of lower score and
\* stands at a slot that has an equally good available slot after it, while
\* another section's hour of the same faculty stands elsewhere
C29_Witness ==
    /\ pc = "constructed"
    /\ \E i \in TheoryGenes(candidate.genes) :
          /\ \E k \in DOMAIN ScannedSlots(candidate.genes, i) :
                /\ k < ChosenSlot(candidate.genes, i)
                /\ WasAvailable(candidate.genes, i, k)
          /\ \E k \in DOMAIN ScannedSlots(candidate.genes, i) :
                /\ k > ChosenSlot(candidate.genes, i)
                /\ WasAvailable(candidate.genes, i, k)
                /\ ScoreThen(candidate.genes, i, k)
                      = ScoreThen(candidate.genes, i, ChosenSlot(candidate.genes, i))
    /\ \E i, j \in TheoryGenes(candidate.genes) :
          /\ candidate.genes[i].faculty_id = candidate.genes[j].faculty_id
          /\ candidate.genes[i].section_id # candidate.genes[j].section_id

(***************************************************************************)
(* Properties of the end of the loop.                                      *)
(***************************************************************************)
AfterLoop == {"final", "return", "done"}

\* C30: the evolution loop ends after at most `generations` iterations, and
\* it exits in the first generation in which best_ever.fitness >= 1000 after
\* the best-tracking step, without diversity injection, tabu search or
\* offspring creation in that generation; after the loop the repair pass
\* runs exactly once on best_ever, and the final tabu pass runs only if the
\* fitness is then below 900
C30_LoopTerminates ==
    [][/\ pc' \in LoopSteps => generation' < generations
       /\ (pc = "check" /\ best_ever.fitness >= 1000) =>
             /\ pc' = "repair"
             /\ generation' = generation
             /\ best_ever' = best_ever
             /\ stagnation_counter' = stagnation_counter
             /\ next_pop' = next_pop
       /\ (pc = "check" /\ best_ever.fitness < 1000) => pc' = "elite"
       /\ pc' = "repair" =>
             \/ pc = "check" /\ best_ever.fitness >= 1000
             \/ pc = "offspring" /\ generation' = generations
       /\ pc = "repair" =>
             /\ pc' = "final"
             /\ best_ever'.genes =
                   repair_lab_continuity_post_generation(best_ever,
                       inp.master_schedule).chromosome.genes
       /\ pc' = "final" => pc = "repair"
       /\ pc \in AfterLoop => pc' \in AfterLoop
       /\ (pc = "final" /\ pc' = "return") => best_ever.fitness < 900
       /\ (pc = "final" /\ best_ever.fitness >= 900) =>
             /\ pc' = "done"
             /\ best_ever' = best_ever]_vars

\* the loop was left in its first generation, at fitness 1000, and the solve
\* returned without the final tabu pass
C30_Witness ==
    /\ pc = "done"
    /\ generation = 0
    /\ generations > 1
    /\ best_ever.fitness >= 1000
    /\ result # NoResult

====
